---- MODULE Spec2Model ----
(***************************************************************************)
(* Model of the pbip-documenter core: the lineage engine                   *)
(* (src/lineage-engine.js), the TMDL parser and the DAX reference          *)
(* extractor (src/tmdl-parser.js).                                         *)
(*                                                                         *)
(* JavaScript strings are modelled as sequences of one-character strings,  *)
(* so that string concatenation (the dedup and cache keys), trimming and   *)
(* regular-expression scanning are computed as the code computes them.     *)
(***************************************************************************)
EXTENDS Integers, Sequences, FiniteSets, TLC

VARIABLES
    \* LineageEngine (src/lineage-engine.js)
    parsedModel,        \* this.parsedModel: [tables, expressions]
    visualData,         \* this.visualData: [present, visuals]
    measureRefs,        \* this.measureRefs: measure name -> refs record
    measureLookup,      \* this.measureLookup: measure name -> table name
    dataSources,        \* this.dataSources
    nodes,              \* this.nodes: id -> node
    edges,              \* this.edges
    calcGroupTables,    \* this._calcGroupTables
    fieldParamTables,   \* this._fieldParamTables
    measureChainCache,  \* this._measureChainCache
    visualLineageCache, \* this._visualLineageCache
    measureImpactCache, \* this._measureImpactCache
    phase,              \* "new" after construction, "built" after buildGraph
    result,             \* what the last query returned
    queries,            \* number of queries made so far
    \* resolveMeasureChain run step by step
    stack,              \* one frame per active call
    ret,                \* the last value returned by a top-level call
    \* DAXReferenceExtractor.extract
    dax,                \* the DAX text handed to extract
    extracted,          \* what extract returned
    \* App.parseModel and TMDLParser.parseAll
    files,              \* path -> content, as read from the folder
    parser,             \* the TMDLParser object (its properties)
    parseAllOutcome,    \* "none", "returned" or "threw"
    parseErrors,        \* App's this.parseErrors
    appPc,              \* position in App.parseModel
    appOutcome,         \* how App.parseModel ended
    \* MExpressionParser
    mText,              \* the M text of the partition / handed to extractDataSources
    mExpressions,       \* the shared expressions of the model
    declaredParams,     \* the static MExpressionParser._declaredParams
    mArgument,          \* the source list handed to the last call
    mSources,           \* what the last call returned
    mCall,              \* the last call made
    mOutcome            \* "none", "returned" or "threw"

engineVars == <<parsedModel, visualData, dataSources, nodes, edges, calcGroupTables,
                fieldParamTables, visualLineageCache, measureImpactCache, phase,
                result, queries>>
chainVars  == <<measureRefs, measureLookup, measureChainCache, stack, ret>>
daxVars    == <<dax, extracted>>
parseVars  == <<files, parser, parseAllOutcome, parseErrors, appPc, appOutcome>>
mVars      == <<mText, mExpressions, declaredParams, mArgument, mSources, mCall,
                mOutcome>>
vars       == <<engineVars, chainVars, daxVars, parseVars, mVars>>

(***************************************************************************)
(* Generic helpers                                                         *)
(***************************************************************************)
Range(s) == {s[i] : i \in 1..Len(s)}

NoDup(s) == \A i, j \in 1..Len(s) : i # j => s[i] # s[j]

RECURSIVE SumLen(_, _)
SumLen(f, D) ==
    IF D = {} THEN 0
    ELSE LET d == CHOOSE x \in D : TRUE IN Len(f[d]) + SumLen(f, D \ {d})

\* All sequences over S of length at most n without repeated elements.
SeqsNoDup(S, n) == UNION {{s \in [1..k -> S] : NoDup(s)} : k \in 0..n}

\* Set.add / `if (!list.includes(x)) list.push(x)`: insertion-ordered, no repeats.
AddUnique(seq, x) == IF x \in Range(seq) THEN seq ELSE Append(seq, x)

RECURSIVE AddAll(_, _)
AddAll(seq, xs) ==
    IF xs = <<>> THEN seq ELSE AddAll(AddUnique(seq, Head(xs)), Tail(xs))

RECURSIVE Concat(_)
Concat(ss) == IF ss = <<>> THEN <<>> ELSE Head(ss) \o Concat(Tail(ss))

\* Map.set
Put(map, k, v) == [x \in (DOMAIN map) \cup {k} |-> IF x = k THEN v ELSE map[x]]

\* A JS string is truthy unless it is empty; absent values are modelled as "".
Truthy(str) == str # <<>>

\* String.prototype.toLowerCase
UpperLetters ==
    <<"A", "B", "C", "D", "E", "F", "G", "H", "I", "J", "K", "L", "M",
      "N", "O", "P", "Q", "R", "S", "T", "U", "V", "W", "X", "Y", "Z">>
LowerLetters ==
    <<"a", "b", "c", "d", "e", "f", "g", "h", "i", "j", "k", "l", "m",
      "n", "o", "p", "q", "r", "s", "t", "u", "v", "w", "x", "y", "z">>

LowerCh(ch) ==
    IF \E k \in 1..Len(UpperLetters) : UpperLetters[k] = ch
    THEN LowerLetters[CHOOSE k \in 1..Len(UpperLetters) : UpperLetters[k] = ch]
    ELSE ch

toLowerCase(str) == [i \in 1..Len(str) |-> LowerCh(str[i])]

\* Array.prototype.join
RECURSIVE Join(_, _)
Join(parts, sep) ==
    IF parts = <<>> THEN <<>>
    ELSE IF Len(parts) = 1 THEN parts[1]
    ELSE parts[1] \o sep \o Join(Tail(parts), sep)

(***************************************************************************)
(* Bounds                                                                  *)
(***************************************************************************)
MaxChainRefs   == 3   \* measure references in the step-by-step chain model
MaxLineageRefs == 2   \* DAX references (of any kind) in the engine model
MaxMeasureRefs == 1   \* DAX references of one measure in the engine model
MaxQueries     == 2   \* queries made on one engine
MaxDaxTokens   == 4   \* pieces a DAX text is made of
MaxLines       == 3   \* lines of the files of a definition folder, together
MaxMTokens     == 3   \* pieces an M text is made of
MaxSources     == 3   \* sources handed to deduplicateSources
MaxTotalTokens == 3   \* pieces of a DAX text and an M text, together
MaxExprLines   == 4   \* lines after the header of a measure
MaxHiddenLines == 4   \* lines of a table file with isHidden properties
MaxBodyLines   == 4   \* lines after a measure with its expression
MaxObjectLines == 4   \* lines of a table file that declare objects
MaxMeasureLines == 2  \* lines after the declaration of each of two tables

(***************************************************************************)
(* JS values and the state of the parts of the program a run does not use  *)
(***************************************************************************)
Null      == <<"<null>">>
Undefined == <<"<undefined>">>

\* !text for a value that is a string, null or undefined
Missing(text) == text = Null \/ text = Undefined \/ text = <<>>

\* null in a place that holds an object when it is not null
NoObject == [null |-> TRUE]

\* extract has not been called.
NotExtracted == [done |-> FALSE]

DaxUnused ==
    /\ dax = <<>>
    /\ extracted = NotExtracted

\* new TMDLParser(): the constructor sets this.model and nothing else.
NewParser ==
    [model |-> [database |-> Null, model |-> Null, tables |-> <<>>,
                relationships |-> <<>>, roles |-> <<>>, expressions |-> <<>>]]

ParseUnused ==
    /\ files = <<>>
    /\ parser = NewParser
    /\ parseAllOutcome = "none"
    /\ parseErrors = <<>>
    /\ appPc = "idle"
    /\ appOutcome = "none"

\* The static MExpressionParser._declaredParams: undefined until
\* extractAllFromModel sets it to a Set of names.
NoDeclaredParams == [defined |-> FALSE, names |-> {}]
DeclaredSet(names) == [defined |-> TRUE, names |-> names]

\* No method of MExpressionParser has been called on its own.
MUnused ==
    /\ mText = <<>>
    /\ mExpressions = <<>>
    /\ declaredParams = NoDeclaredParams
    /\ mArgument = <<>>
    /\ mSources = <<>>
    /\ mCall = "none"
    /\ mOutcome = "none"

(***************************************************************************)
(* DAXReferenceExtractor.buildMeasureLookup: measure name -> defining      *)
(* table, built from all tables' measures in table order; a later table    *)
(* overwrites an earlier one that defines the same name.                   *)
(***************************************************************************)
RECURSIVE LookupFrom(_, _, _)
LookupFrom(tables, i, acc) ==
    IF i > Len(tables) THEN acc
    ELSE LET t   == tables[i]
             ns  == {t.measures[k].name : k \in 1..Len(t.measures)}
             new == [n \in (DOMAIN acc) \cup ns |->
                        IF n \in ns THEN t.name ELSE acc[n]]
         IN LookupFrom(tables, i + 1, new)

buildMeasureLookup(tables) == LookupFrom(tables, 1, <<>>)

\* lookup.get(name) followed by the truthiness test `if (refTable)`
LookupHasIn(lookup, name) == name \in DOMAIN lookup /\ Truthy(lookup[name])

(***************************************************************************)
(* resolveMeasureChain, lines 276-312, as a function of the engine's       *)
(* measureRefs, measureLookup and cache                                    *)
(***************************************************************************)
\* `${m.table}.${m.name}`
MeasureKey(m) == m.table \o <<".">> \o m.name

\* chain.filter(...) with the `seen` set, lines 299-305
RECURSIVE DedupeFrom(_, _, _)
DedupeFrom(chain, i, seen) ==
    IF i > Len(chain) THEN <<>>
    ELSE LET key == MeasureKey(chain[i])
         IN IF key \in seen
            THEN DedupeFrom(chain, i + 1, seen)
            ELSE <<chain[i]>> \o DedupeFrom(chain, i + 1, seen \cup {key})

Dedupe(chain) == DedupeFrom(chain, 1, {})

\* Cycle test of line 281.
OnPathNever(name, visited) == FALSE
OnPath(name, visited) == name \in visited

\* What a call does on entry (lines 277-286) with the visited set it was given.
EntryOutcomeIn(refs, cache, name, visited) ==
    IF name \in DOMAIN cache /\ Cardinality(visited) = 0 THEN "cached"
    ELSE IF OnPath(name, visited) THEN "cycle"
    ELSE IF name \notin DOMAIN refs THEN "norefs"
    ELSE "enter"

\* The whole recursive call, lines 276-312.
RECURSIVE ResolveIn(_, _, _, _, _)
RECURSIVE ResolveLoop(_, _, _, _, _, _)
ResolveLoop(refs, lookup, cache, name, visited, i) ==
    IF i > Len(refs[name].measureRefs) THEN <<>>
    ELSE LET r == refs[name].measureRefs[i]
         IN IF LookupHasIn(lookup, r)
            THEN <<[name |-> r, table |-> lookup[r]]>>
                 \o ResolveIn(refs, lookup, cache, r, visited)
                 \o ResolveLoop(refs, lookup, cache, name, visited, i + 1)
            ELSE ResolveLoop(refs, lookup, cache, name, visited, i + 1)

ResolveIn(refs, lookup, cache, name, visited) ==
    LET how == EntryOutcomeIn(refs, cache, name, visited)
    IN CASE how = "cached" -> cache[name]
         [] how \in {"cycle", "norefs"} -> <<>>
         [] OTHER -> Dedupe(ResolveLoop(refs, lookup, cache, name, visited \cup {name}, 1))

\* The entries a call would leave if the calls it makes inside the loop
\* stored what they return
RECURSIVE StoreInner(_, _, _, _, _)
StoreInner(refs, lookup, cache, name, i) ==
    IF i > Len(refs[name].measureRefs) THEN cache
    ELSE LET r == refs[name].measureRefs[i]
         IN StoreInner(refs, lookup,
                       IF LookupHasIn(lookup, r) /\ r \in DOMAIN refs /\ r # name
                          /\ r \notin DOMAIN cache
                       THEN Put(cache, r, ResolveIn(refs, lookup, cache, r, {name}))
                       ELSE cache,
                       name, i + 1)

resolveMeasureChainStoringInner(refs, lookup, cache, name) ==
    LET value == ResolveIn(refs, lookup, cache, name, {})
    IN [value |-> value,
        cache |-> IF EntryOutcomeIn(refs, cache, name, {}) = "enter"
                  THEN Put(StoreInner(refs, lookup, cache, name, 1), name, value)
                  ELSE cache]

\* A top-level call: the value it returns and the cache it leaves (line 307-309:
\* a call that reaches the end with visited.size === 1 stores its result).
resolveMeasureChain(refs, lookup, cache, name) ==
    LET value == ResolveIn(refs, lookup, cache, name, {})
    IN [value |-> value,
        cache |-> IF EntryOutcomeIn(refs, cache, name, {}) = "enter"
                  THEN Put(cache, name, value) ELSE cache]

(***************************************************************************)
(* resolveMeasureChain run step by step, one frame per active call.        *)
(*                                                                         *)
(* Names of the chain model: table a defines measures x and b.c, table     *)
(* a.b defines measure c; g is referenced but defined nowhere.             *)
(***************************************************************************)
T_a  == <<"a">>
T_ab == <<"a", ".", "b">>
N_x  == <<"x">>
N_bc == <<"b", ".", "c">>
N_c  == <<"c">>
N_g  == <<"g">>

ChainTables ==
    << [name |-> T_a,  measures |-> <<[name |-> N_x], [name |-> N_bc]>>],
       [name |-> T_ab, measures |-> <<[name |-> N_c]>>] >>

ChainMeasures == {N_x, N_bc, N_c}
ChainNames    == ChainMeasures \cup {N_g}

LookupHas(name) == LookupHasIn(measureLookup, name)
HasRefs(name) == name \in DOMAIN measureRefs
EntryOutcome(name, visited) == EntryOutcomeIn(measureRefs, measureChainCache, name, visited)

NewFrame(name, visited) ==
    [name |-> name, visited |-> visited \cup {name}, i |-> 1, chain |-> <<>>]

Top == stack[Len(stack)]
SetTop(f) == [stack EXCEPT ![Len(stack)] = f]

NoCall == [name |-> <<>>, value |-> <<>>, how |-> "none"]

\* Top-level call answered from the cache (line 278).
CallCached(n) ==
    /\ stack = <<>>
    /\ EntryOutcome(n, {}) = "cached"
    /\ ret' = [name |-> n, value |-> measureChainCache[n], how |-> "cached"]
    /\ UNCHANGED <<daxVars, parseVars, mVars, engineVars, measureRefs, measureLookup, measureChainCache, stack>>

\* Top-level call for a name without a refs entry (line 286): [] and no caching.
CallNoRefs(n) ==
    /\ stack = <<>>
    /\ EntryOutcome(n, {}) = "norefs"
    /\ ret' = [name |-> n, value |-> <<>>, how |-> "norefs"]
    /\ UNCHANGED <<daxVars, parseVars, mVars, engineVars, measureRefs, measureLookup, measureChainCache, stack>>

\* Top-level call that enters the loop.
CallEnter(n) ==
    /\ stack = <<>>
    /\ EntryOutcome(n, {}) = "enter"
    /\ stack' = <<NewFrame(n, {})>>
    /\ ret' = NoCall
    /\ UNCHANGED <<daxVars, parseVars, mVars, engineVars, measureRefs, measureLookup, measureChainCache>>

CurRef == measureRefs[Top.name].measureRefs[Top.i]
InLoop == stack # <<>> /\ Top.i <= Len(measureRefs[Top.name].measureRefs)

\* Loop iteration whose reference is not a known measure (line 290 false).
LoopSkip ==
    /\ InLoop
    /\ ~LookupHas(CurRef)
    /\ stack' = SetTop([Top EXCEPT !.i = @ + 1])
    /\ UNCHANGED <<daxVars, parseVars, mVars, engineVars, measureRefs, measureLookup, measureChainCache, ret>>

\* Loop iteration whose recursive call returns [] at once (cycle or no refs).
LoopLeaf ==
    /\ InLoop
    /\ LookupHas(CurRef)
    /\ EntryOutcome(CurRef, Top.visited) \in {"cycle", "norefs"}
    /\ stack' = SetTop([Top EXCEPT
                   !.i = @ + 1,
                   !.chain = Append(@, [name |-> CurRef, table |-> measureLookup[CurRef]])])
    /\ UNCHANGED <<daxVars, parseVars, mVars, engineVars, measureRefs, measureLookup, measureChainCache, ret>>

\* Loop iteration that recurses with a copy of the visited set (line 293).
LoopRecurse ==
    /\ InLoop
    /\ LookupHas(CurRef)
    /\ EntryOutcome(CurRef, Top.visited) = "enter"
    /\ stack' = Append(
          SetTop([Top EXCEPT
                   !.chain = Append(@, [name |-> CurRef, table |-> measureLookup[CurRef]])]),
          NewFrame(CurRef, Top.visited))
    /\ UNCHANGED <<daxVars, parseVars, mVars, engineVars, measureRefs, measureLookup, measureChainCache, ret>>

\* End of the loop: dedupe, cache when visited.size === 1, return (lines 298-311).
FrameReturn ==
    /\ stack # <<>>
    /\ Top.i > Len(measureRefs[Top.name].measureRefs)
    /\ LET deduped == Dedupe(Top.chain)
           rest    == SubSeq(stack, 1, Len(stack) - 1)
       IN /\ measureChainCache' =
                IF Cardinality(Top.visited) = 1
                THEN Put(measureChainCache, Top.name, deduped)
                ELSE measureChainCache
          /\ IF rest = <<>>
             THEN /\ stack' = <<>>
                  /\ ret' = [name |-> Top.name, value |-> deduped, how |-> "computed"]
             ELSE /\ stack' = [rest EXCEPT ![Len(rest)] =
                                  [@ EXCEPT !.i = @ + 1, !.chain = @ \o deduped]]
                  /\ UNCHANGED ret
    /\ UNCHANGED <<daxVars, parseVars, mVars, engineVars, measureRefs, measureLookup>>

ChainStep == LoopSkip \/ LoopLeaf \/ LoopRecurse \/ FrameReturn

\* The reference lists of the chain model: every measure has an entry
\* (an expression), with at most MaxChainRefs references in total.
ChainRefChoices ==
    {f \in [ChainMeasures -> SeqsNoDup(ChainNames, MaxChainRefs)] :
        SumLen(f, ChainMeasures) <= MaxChainRefs}

\* No query has been made.
NoResult == [op |-> "none"]

\* The engine of the chain model is used for resolveMeasureChain only.
EngineUnused ==
    /\ parsedModel = [tables |-> ChainTables, expressions |-> <<>>]
    /\ visualData = [present |-> FALSE, visuals |-> <<>>]
    /\ dataSources = <<>>
    /\ nodes = <<>>
    /\ edges = <<>>
    /\ calcGroupTables = {}
    /\ fieldParamTables = {}
    /\ visualLineageCache = <<>>
    /\ measureImpactCache = <<>>
    /\ phase = "built"
    /\ result = NoResult
    /\ queries = 0

InitChain ==
    /\ MUnused
    /\ EngineUnused
    /\ DaxUnused
    /\ ParseUnused
    /\ \E f \in ChainRefChoices, noExpr \in SUBSET {N_c} :
          measureRefs =
             [n \in {m \in ChainMeasures : ~(m \in noExpr /\ f[m] = <<>>)} |->
                 [measureRefs |-> f[n], columnRefs |-> <<>>, tableRefs |-> <<>>]]
    /\ measureLookup = buildMeasureLookup(ChainTables)
    /\ measureChainCache = <<>>
    /\ stack = <<>>
    /\ ret = NoCall

NextChain ==
    \/ \E n \in ChainNames : CallCached(n)
    \/ \E n \in ChainNames : CallNoRefs(n)
    \/ \E n \in ChainNames : CallEnter(n)
    \/ LoopSkip
    \/ LoopLeaf
    \/ LoopRecurse
    \/ FrameReturn

SpecChain == InitChain /\ [][NextChain]_vars

\* A started call is always carried on: the engine is synchronous.
SpecChainFair == SpecChain /\ WF_vars(ChainStep)

(***************************************************************************)
(* MExpressionParser as the engine uses it (src/m-parser.js).  In the      *)
(* engine model an M expression is represented by the connector calls it   *)
(* contains; each call yields one source descriptor.                       *)
(***************************************************************************)
\* extractDataSources, lines 12-256: no sources for an empty/missing text.
extractDataSources(mExpression) ==
    IF ~mExpression.present THEN <<>>
    ELSE [i \in 1..Len(mExpression.calls) |->
            [type     |-> mExpression.calls[i].type,
             server   |-> mExpression.calls[i].server,
             database |-> mExpression.calls[i].database,
             url      |-> mExpression.calls[i].url,
             path     |-> <<>>]]

\* _sourceKey, lines 338-345
sourceKey(source) ==
    toLowerCase(Join(
        <<source.type>>
        \o (IF Truthy(source.server)   THEN <<source.server>>   ELSE <<>>)
        \o (IF Truthy(source.database) THEN <<source.database>> ELSE <<>>)
        \o (IF Truthy(source.url)      THEN <<source.url>>      ELSE <<>>)
        \o (IF Truthy(source.path)     THEN <<source.path>>     ELSE <<>>),
        <<"|">>))

\* deduplicateSources, lines 322-333: the first source of each key is kept.
RECURSIVE DedupSourcesFrom(_, _, _)
DedupSourcesFrom(all, i, seen) ==
    IF i > Len(all) THEN <<>>
    ELSE LET key == sourceKey(all[i])
         IN IF key \in seen
            THEN DedupSourcesFrom(all, i + 1, seen)
            ELSE <<all[i]>> \o DedupSourcesFrom(all, i + 1, seen \cup {key})

deduplicateSources(allSources) == DedupSourcesFrom(allSources, 1, {})

\* The sources of the partitions of one table, in order (the loops of lines
\* 131-141, 458-469 and of extractAllFromModel, lines 360-370).
PartitionSources(table) ==
    Concat([i \in 1..Len(table.partitions) |->
               IF table.partitions[i].source.present
               THEN extractDataSources(table.partitions[i].source)
               ELSE <<>>])

\* extractAllFromModel, lines 352-385, for a model without shared
\* expressions (resolveParameters then returns the sources as they are).
extractAllFromModel(model) ==
    deduplicateSources(
        Concat([i \in 1..Len(model.tables) |-> PartitionSources(model.tables[i])]))

(***************************************************************************)
(* LineageEngine helpers                                                   *)
(***************************************************************************)
TableId(t)       == <<"table:">> \o t
ColumnId(t, c)   == <<"column:">> \o t \o <<".">> \o c
MeasureId(t, m)  == <<"measure:">> \o t \o <<".">> \o m
SourceId(src)    == <<"source:">> \o sourceKey(src)
ExpressionId(e)  == <<"expression:">> \o e
CalcItemId(t, n) == <<"calcItem:">> \o t \o <<".">> \o n
FpItemId(t, it)  == <<"fpItem:">> \o t \o <<".">> \o it.table \o <<".">> \o it.column
VisualId(pg, v)  == <<"visual:">> \o pg \o <<"|">> \o v

Edge(f, t, ty) == [from |-> f, to |-> t, type |-> ty]

\* parsedModel.tables.find(t => t.name === tableName): index of the first, or 0
FindTable(tables, tableName) ==
    IF \E i \in 1..Len(tables) : tables[i].name = tableName
    THEN CHOOSE i \in 1..Len(tables) :
            /\ tables[i].name = tableName
            /\ \A j \in 1..(i - 1) : tables[j].name # tableName
    ELSE 0

\* _getCalculationGroupItems, lines 686-690; <<>> stands for null.
getCalculationGroupItems(tables, tableName) ==
    LET i == FindTable(tables, tableName)
    IN IF i = 0 THEN <<>> ELSE tables[i].calculationGroup

\* _getFieldParameterItems, lines 660-681; <<>> stands for null.  Each
\* column expression and partition source carries the NAMEOF('T'[c]) items
\* the regular expression of line 677 finds in it.
getFieldParameterItems(tables, tableName) ==
    LET i == FindTable(tables, tableName)
    IN IF i = 0 THEN <<>>
       ELSE Concat([k \in 1..Len(tables[i].columns) |-> tables[i].columns[k].nameof])
            \o Concat([k \in 1..Len(tables[i].partitions) |->
                          IF tables[i].partitions[k].source.present
                          THEN tables[i].partitions[k].source.nameof ELSE <<>>])

\* The tables named by the column and table references of one refs record,
\* added to an insertion-ordered set (lines 88-89, 96-97, 354-355, 364-365).
AddRefTables(acc, r) ==
    AddAll(AddAll(acc, [i \in 1..Len(r.columnRefs) |-> r.columnRefs[i].table]),
           r.tableRefs)

\* The tables of the measure alone, without those of its chain
AddChainRefTablesNone(acc, refs, chain, i) == acc

RECURSIVE AddChainRefTables(_, _, _, _)
AddChainRefTables(acc, refs, chain, i) ==
    IF i > Len(chain) THEN acc
    ELSE AddChainRefTables(
            IF chain[i].name \in DOMAIN refs
            THEN AddRefTables(acc, refs[chain[i].name]) ELSE acc,
            refs, chain, i + 1)

\* resolvedTables of a field-parameter item, lines 183-195 and 401-413
ResolvedTables(refs, lookup, item) ==
    IF LookupHasIn(lookup, item.column) /\ item.column \in DOMAIN refs
    THEN AddRefTables(<<>>, refs[item.column])
    ELSE <<>>

(***************************************************************************)
(* buildGraph, lines 34-268.  g is the graph under construction:           *)
(* [nodes, edges, cache].                                                  *)
(***************************************************************************)
\* Step 1, lines 39-48
RECURSIVE AddSourceNodes(_, _, _)
AddSourceNodes(ns, sources, i) ==
    IF i > Len(sources) THEN ns
    ELSE AddSourceNodes(
            Put(ns, SourceId(sources[i]), [type |-> "dataSource"]), sources, i + 1)

\* this.edges.push(...) for each edge of es, in order
AddEdges(g, es) == [g EXCEPT !.edges = @ \o es]

\* One measure, lines 75-128
BuildMeasure(g, refs, lookup, table, measure) ==
    LET measureId == MeasureId(table.name, measure.name)
        ns        == Put(g.nodes, measureId,
                         [type |-> "measure", name |-> measure.name, table |-> table.name])
        has       == measure.name \in DOMAIN refs
        own       == IF has THEN AddRefTables(<<>>, refs[measure.name]) ELSE <<>>
        call      == resolveMeasureChain(refs, lookup, g.cache, measure.name)
        daxTables == AddChainRefTables(own, refs, call.value, 1)
        defEdges  ==
            IF Len(daxTables) > 0
            THEN [i \in 1..Len(daxTables) |->
                     Edge(measureId, TableId(daxTables[i]), "defined_in_table")]
            ELSE <<Edge(measureId, TableId(table.name), "defined_in_table")>>
        r         == refs[measure.name]
        colEdges  ==
            IF has
            THEN [i \in 1..Len(r.columnRefs) |->
                     Edge(measureId, ColumnId(r.columnRefs[i].table, r.columnRefs[i].column),
                          "references_column")]
            ELSE <<>>
        known     == IF has
                     THEN SelectSeq(r.measureRefs, LAMBDA m : LookupHasIn(lookup, m))
                     ELSE <<>>
        depEdges  == [i \in 1..Len(known) |->
                         Edge(measureId, MeasureId(lookup[known[i]], known[i]),
                              "depends_on_measure")]
        tblEdges  ==
            IF has
            THEN [i \in 1..Len(r.tableRefs) |->
                     Edge(measureId, TableId(r.tableRefs[i]), "references_table")]
            ELSE <<>>
    IN AddEdges([g EXCEPT !.nodes = ns, !.cache = call.cache],
                defEdges \o colEdges \o depEdges \o tblEdges)

RECURSIVE BuildMeasures(_, _, _, _, _)
BuildMeasures(g, refs, lookup, table, i) ==
    IF i > Len(table.measures) THEN g
    ELSE BuildMeasures(BuildMeasure(g, refs, lookup, table, table.measures[i]),
                       refs, lookup, table, i + 1)

\* Columns of one table, lines 62-72
RECURSIVE BuildColumns(_, _, _)
BuildColumns(g, table, i) ==
    IF i > Len(table.columns) THEN g
    ELSE LET colId == ColumnId(table.name, table.columns[i].name)
         IN BuildColumns(
               [g EXCEPT !.nodes = Put(@, colId, [type |-> "column",
                                                 name |-> table.columns[i].name,
                                                 table |-> table.name]),
                         !.edges = Append(@, Edge(colId, TableId(table.name),
                                                  "belongs_to_table"))],
               table, i + 1)

\* Partitions of one table, lines 131-141: an edge only to a known source node.
BuildPartitions(g, table) ==
    LET srcs == PartitionSources(table)
        ok   == SelectSeq(srcs, LAMBDA src : SourceId(src) \in DOMAIN g.nodes)
    IN [g EXCEPT !.edges = @ \o [i \in 1..Len(ok) |->
                    Edge(TableId(table.name), SourceId(ok[i]), "connects_to_source")]]

\* Step 2, lines 51-142
RECURSIVE BuildTables(_, _, _, _, _)
BuildTables(g, refs, lookup, tables, i) ==
    IF i > Len(tables) THEN g
    ELSE LET t  == tables[i]
             g1 == [g EXCEPT !.nodes = Put(@, TableId(t.name),
                                           [type |-> "table", name |-> t.name])]
             g2 == BuildColumns(g1, t, 1)
             g3 == BuildMeasures(g2, refs, lookup, t, 1)
             g4 == BuildPartitions(g3, t)
         IN BuildTables(g4, refs, lookup, tables, i + 1)

\* Step 3, lines 145-154
RECURSIVE BuildExpressions(_, _, _)
BuildExpressions(g, exprs, i) ==
    IF i > Len(exprs) THEN g
    ELSE BuildExpressions(
            [g EXCEPT !.nodes = Put(@, ExpressionId(exprs[i].name),
                                    [type |-> "expression", name |-> exprs[i].name])],
            exprs, i + 1)

\* Calculation items of one table, lines 163-172
RECURSIVE BuildCalcItems(_, _, _, _)
BuildCalcItems(g, tableName, items, i) ==
    IF i > Len(items) THEN g
    ELSE LET id == CalcItemId(tableName, items[i].name)
         IN BuildCalcItems(
               [g EXCEPT !.nodes = Put(@, id, [type |-> "calcItem", name |-> items[i].name,
                                              table |-> tableName]),
                         !.edges = Append(@, Edge(id, TableId(tableName), "belongs_to_table"))],
               tableName, items, i + 1)

\* Field-parameter items of one table, lines 179-213
RECURSIVE BuildFpItems(_, _, _, _, _, _)
BuildFpItems(g, refs, lookup, tableName, items, i) ==
    IF i > Len(items) THEN g
    ELSE LET id == FpItemId(tableName, items[i])
             rt == ResolvedTables(refs, lookup, items[i])
             g1 == [g EXCEPT !.nodes = Put(@, id, [type |-> "fpItem",
                                                  table |-> items[i].table,
                                                  sourceTable |-> tableName,
                                                  resolvedTables |-> rt])]
             es == IF Len(rt) > 0
                   THEN [k \in 1..Len(rt) |-> Edge(id, TableId(rt[k]), "belongs_to_table")]
                   ELSE <<Edge(id, TableId(items[i].table), "belongs_to_table")>>
         IN BuildFpItems(AddEdges(g1, es), refs, lookup, tableName, items, i + 1)

\* Step 4, lines 157-215.  g carries cg and fp, the two table-name sets.
RECURSIVE BuildExpansions(_, _, _, _, _)
BuildExpansions(g, refs, lookup, tables, i) ==
    IF i > Len(tables) THEN g
    ELSE LET tn      == tables[i].name
             cgItems == getCalculationGroupItems(tables, tn)
             fpItems == getFieldParameterItems(tables, tn)
         IN IF cgItems # <<>>
            THEN BuildExpansions(
                    BuildCalcItems([g EXCEPT !.cg = @ \cup {tn}], tn, cgItems, 1),
                    refs, lookup, tables, i + 1)
            ELSE IF fpItems # <<>>
            THEN BuildExpansions(
                    BuildFpItems([g EXCEPT !.fp = @ \cup {tn}], refs, lookup, tn, fpItems, 1),
                    refs, lookup, tables, i + 1)
            ELSE BuildExpansions(g, refs, lookup, tables, i + 1)

\* The uses_field edges of one visual field, lines 230-265
FieldEdges(g, tables, visualId, field) ==
    IF ~Truthy(field.table) \/ ~Truthy(field.name) THEN <<>>
    ELSE IF field.type = "measure"
    THEN <<Edge(visualId, MeasureId(field.table, field.name), "uses_field")>>
    ELSE IF field.type = "column"
    THEN IF field.table \in g.cg
         THEN LET items == getCalculationGroupItems(tables, field.table)
              IN [k \in 1..Len(items) |->
                     Edge(visualId, CalcItemId(field.table, items[k].name), "uses_field")]
         ELSE IF field.table \in g.fp
         THEN LET items == getFieldParameterItems(tables, field.table)
              IN [k \in 1..Len(items) |->
                     Edge(visualId, FpItemId(field.table, items[k]), "uses_field")]
         ELSE <<Edge(visualId, ColumnId(field.table, field.name), "uses_field")>>
    ELSE IF field.type = "hierarchy"
    THEN <<Edge(visualId, TableId(field.table), "uses_field")>>
    ELSE <<>>

\* Step 5, lines 218-267
RECURSIVE BuildVisuals(_, _, _, _)
BuildVisuals(g, tables, visuals, i) ==
    IF i > Len(visuals) THEN g
    ELSE LET v  == visuals[i]
             id == VisualId(v.pageName, v.visualName)
             g1 == [g EXCEPT !.nodes = Put(@, id, [type |-> "visual", name |-> v.visualName,
                                                  pageName |-> v.pageName])]
             es == Concat([k \in 1..Len(v.fields) |-> FieldEdges(g1, tables, id, v.fields[k])])
         IN BuildVisuals(AddEdges(g1, es), tables, visuals, i + 1)

\* The graph buildGraph leaves in an engine whose graph was g0.
buildGraph(g0, model, visuals, refs) ==
    LET lookup  == buildMeasureLookup(model.tables)
        sources == extractAllFromModel(model)
        g1 == [g0 EXCEPT !.nodes = AddSourceNodes(@, sources, 1)]
        g2 == BuildTables(g1, refs, lookup, model.tables, 1)
        g3 == BuildExpressions(g2, model.expressions, 1)
        g4 == BuildExpansions([g3 EXCEPT !.cg = {}, !.fp = {}], refs, lookup, model.tables, 1)
        g5 == IF visuals.present THEN BuildVisuals(g4, model.tables, visuals.visuals, 1) ELSE g4
    IN [g5 EXCEPT !.lookup = lookup, !.sources = sources]

(***************************************************************************)
(* getVisualLineage, lines 320-487                                         *)
(***************************************************************************)
\* visualData?.visuals.find(...), lines 326-328: index of the first match, or 0
FindVisual(visuals, pageName, visualName) ==
    IF ~visuals.present THEN 0
    ELSE LET vs == visuals.visuals
             Match(i) == vs[i].pageName = pageName /\ vs[i].visualName = visualName
         IN IF \E i \in 1..Len(vs) : Match(i)
            THEN CHOOSE i \in 1..Len(vs) : Match(i) /\ \A j \in 1..(i - 1) : ~Match(j)
            ELSE 0

\* Tables of the chain of a measure field, lines 358-367
RECURSIVE AddChainTables(_, _, _, _, _)
AddChainTables(acc, refs, fp, chain, i) ==
    IF i > Len(chain) THEN acc
    ELSE LET a1 == IF chain[i].table \notin fp THEN AddUnique(acc, chain[i].table) ELSE acc
             a2 == IF chain[i].name \in DOMAIN refs
                   THEN AddRefTables(a1, refs[chain[i].name]) ELSE a1
         IN AddChainTables(a2, refs, fp, chain, i + 1)

\* The loop over the fields of the visual, lines 336-376.  st is
\* [measures, columns, tables, cache].
RECURSIVE CollectFields(_, _, _, _, _, _)
CollectFields(st, refs, lookup, fp, fields, i) ==
    IF i > Len(fields) THEN st
    ELSE LET f == fields[i]
         IN IF ~Truthy(f.table) \/ ~Truthy(f.name)
            THEN CollectFields(st, refs, lookup, fp, fields, i + 1)
            ELSE IF f.type = "measure"
            THEN IF \E k \in 1..Len(st.measures) : st.measures[k].name = f.name
                 THEN CollectFields(st, refs, lookup, fp, fields, i + 1)
                 ELSE LET call == resolveMeasureChain(refs, lookup, st.cache, f.name)
                          t1 == IF f.table \notin fp THEN AddUnique(st.tables, f.table)
                                ELSE st.tables
                          t2 == IF f.name \in DOMAIN refs THEN AddRefTables(t1, refs[f.name])
                                ELSE t1
                          t3 == AddChainTables(t2, refs, fp, call.value, 1)
                      IN CollectFields(
                            [st EXCEPT !.measures = Append(@, [name |-> f.name,
                                                             table |-> f.table,
                                                             chain |-> call.value]),
                                       !.tables = t3,
                                       !.cache = call.cache],
                            refs, lookup, fp, fields, i + 1)
            ELSE LET key == f.table \o <<".">> \o f.name
                     cs  == IF \E k \in 1..Len(st.columns) : st.columns[k].key = key
                            THEN st.columns
                            ELSE Append(st.columns,
                                        [key |-> key, table |-> f.table, column |-> f.name])
                 IN CollectFields(
                       [st EXCEPT !.columns = cs, !.tables = AddUnique(@, f.table)],
                       refs, lookup, fp, fields, i + 1)

\* The expanded field-parameter items of one column, lines 399-428
ExpandFp(refs, lookup, sourceTable, items) ==
    [k \in 1..Len(items) |->
        [table |-> items[k].table, column |-> items[k].column,
         sourceTable |-> sourceTable,
         resolvedTables |-> ResolvedTables(refs, lookup, items[k])]]

RECURSIVE AddFpTables(_, _, _)
AddFpTables(acc, fpItems, i) ==
    IF i > Len(fpItems) THEN acc
    ELSE AddFpTables(
            IF Len(fpItems[i].resolvedTables) > 0
            THEN AddAll(acc, fpItems[i].resolvedTables)
            ELSE AddUnique(acc, fpItems[i].table),
            fpItems, i + 1)

\* The loop over the collected columns, lines 383-432.  ex is
\* [calc, fpi, remove, tables].
RECURSIVE ExpandColumns(_, _, _, _, _, _)
ExpandColumns(ex, refs, lookup, tables, columns, i) ==
    IF i > Len(columns) THEN ex
    ELSE LET col     == columns[i]
             cgItems == getCalculationGroupItems(tables, col.table)
             fpItems == getFieldParameterItems(tables, col.table)
         IN IF cgItems # <<>>
            THEN ExpandColumns(
                    [ex EXCEPT !.calc = @ \o [k \in 1..Len(cgItems) |->
                                                 [name |-> cgItems[k].name,
                                                  sourceTable |-> col.table]],
                               !.remove = @ \cup {col.key}],
                    refs, lookup, tables, columns, i + 1)
            ELSE IF fpItems # <<>>
            THEN LET items == ExpandFp(refs, lookup, col.table, fpItems)
                 IN ExpandColumns(
                       [ex EXCEPT !.fpi = @ \o items,
                                  !.remove = @ \cup {col.key},
                                  !.tables = AddFpTables(@, items, 1)],
                       refs, lookup, tables, columns, i + 1)
            ELSE ExpandColumns(ex, refs, lookup, tables, columns, i + 1)

\* Lines 442-450: tables that are only NAMEOF targets are removed.
RemoveNameofTables(tbls, fpItems, columns) ==
    IF Len(fpItems) > 0
    THEN LET fpNameofTables == {fpItems[k].table : k \in 1..Len(fpItems)}
             HasDirectColumn(ft) == \E k \in 1..Len(columns) : columns[k].table = ft
         IN SelectSeq(tbls, LAMBDA t : ~(t \in fpNameofTables /\ ~HasDirectColumn(t)))
    ELSE tbls

\* Lines 453-470: the sources of the tables, first of each key kept.
TableSources(tables, tbls) ==
    deduplicateSources(
        Concat([k \in 1..Len(tbls) |->
                   LET i == FindTable(tables, tbls[k])
                   IN IF i = 0 THEN <<>> ELSE PartitionSources(tables[i])]))

\* The call on an engine that has no cached lineage for the key: the value
\* returned ([kind |-> "null"] for null) and the measure-chain cache left.
\* Lines 452-486: the lineage object and the chain cache as the call leaves it
LineageValue(model, pageName, visualName, st, ex, columns, tbls) ==
    [value |->
        [kind |-> "lineage",
         visual |-> [name |-> visualName, page |-> pageName],
         measures |-> st.measures,
         columns |-> [k \in 1..Len(columns) |->
                         [table |-> columns[k].table, column |-> columns[k].column]],
         expandedCalcItems |-> ex.calc,
         expandedFPItems |-> ex.fpi,
         tables |-> [k \in 1..Len(tbls) |->
                        [name |-> tbls[k],
                         sources |->
                            IF FindTable(model.tables, tbls[k]) = 0 THEN <<>>
                            ELSE PartitionSources(
                                    model.tables[FindTable(model.tables, tbls[k])])]],
         dataSources |-> TableSources(model.tables, tbls)],
     cache |-> st.cache]

\* Lines 438-450: the tables only NAMEOF brought in are removed
WithoutNameofTables(model, pageName, visualName, st, ex, columns) ==
    LineageValue(model, pageName, visualName, st, ex, columns,
                 RemoveNameofTables(ex.tables, ex.fpi, columns))

\* Lines 434-436: the field parameter columns that were expanded are removed
WithoutExpanded(model, pageName, visualName, st, ex) ==
    WithoutNameofTables(model, pageName, visualName, st, ex,
                        SelectSeq(st.columns, LAMBDA c : c.key \notin ex.remove))

\* Lines 378-434: calculation group and field parameter columns are expanded
Expanded(model, refs, lookup, pageName, visualName, st) ==
    WithoutExpanded(model, pageName, visualName, st,
                    ExpandColumns([calc |-> <<>>, fpi |-> <<>>, remove |-> {},
                                   tables |-> st.tables],
                                  refs, lookup, model.tables, st.columns, 1))

\* Lines 330-376: the fields of the visual vi are collected
Collected(model, visuals, refs, lookup, fp, cache, pageName, visualName, vi) ==
    IF vi = 0 THEN [value |-> [kind |-> "null"], cache |-> cache]
    ELSE Expanded(model, refs, lookup, pageName, visualName,
                  CollectFields([measures |-> <<>>, columns |-> <<>>,
                                 tables |-> <<>>, cache |-> cache],
                                refs, lookup, fp, visuals.visuals[vi].fields, 1))

getVisualLineage(model, visuals, refs, lookup, fp, cache, pageName, visualName) ==
    Collected(model, visuals, refs, lookup, fp, cache, pageName, visualName,
              FindVisual(visuals, pageName, visualName))

(***************************************************************************)
(* getMeasureImpact, lines 494-562                                         *)
(***************************************************************************)
\* Object.entries(this.measureRefs): the keys in insertion order, which is
\* the order extractAllReferences (src/tmdl-parser.js, lines 650-663) meets
\* the measures in, each name once at its first position.
RefsKeys(tables, refs) ==
    SelectSeq(
        AddAll(<<>>, Concat([i \in 1..Len(tables) |->
                               [k \in 1..Len(tables[i].measures) |->
                                   tables[i].measures[k].name]])),
        LAMBDA n : n \in DOMAIN refs)

\* Lines 505-513: one-hop reverse search
DependentMeasures(tables, refs, lookup, measureName) ==
    LET keys == SelectSeq(RefsKeys(tables, refs),
                          LAMBDA n : /\ measureName \in Range(refs[n].measureRefs)
                                     /\ LookupHasIn(lookup, n))
    IN [k \in 1..Len(keys) |-> [name |-> keys[k], table |-> lookup[keys[k]]]]

UsesMeasure(visual, name, table) ==
    \E k \in 1..Len(visual.fields) :
        /\ visual.fields[k].type = "measure"
        /\ visual.fields[k].name = name
        /\ visual.fields[k].table = table

\* Lines 516-531
DirectVisuals(visuals, measureName, tableName) ==
    LET hit == SelectSeq(visuals, LAMBDA v : UsesMeasure(v, measureName, tableName))
    IN [k \in 1..Len(hit) |->
           [name |-> hit[k].visualName, page |-> hit[k].pageName,
            indirect |-> FALSE, via |-> <<>>]]

\* Lines 534-556: visuals of one dependent measure, skipping those present
RECURSIVE IndirectOf(_, _, _, _)
IndirectOf(acc, visuals, dm, i) ==
    IF i > Len(visuals) THEN acc
    ELSE LET v == visuals[i]
             alreadyAdded == \E k \in 1..Len(acc) :
                                acc[k].name = v.visualName /\ acc[k].page = v.pageName
         IN IndirectOf(
               IF ~alreadyAdded /\ UsesMeasure(v, dm.name, dm.table)
               THEN Append(acc, [name |-> v.visualName, page |-> v.pageName,
                                 indirect |-> TRUE, via |-> dm.name])
               ELSE acc,
               visuals, dm, i + 1)

RECURSIVE IndirectVisuals(_, _, _, _)
IndirectVisuals(acc, visuals, dms, i) ==
    IF i > Len(dms) THEN acc
    ELSE IndirectVisuals(IndirectOf(acc, visuals, dms[i], 1), visuals, dms, i + 1)

\* The call on an engine that has no cached impact for the name.
getMeasureImpact(model, visuals, refs, lookup, measureName) ==
    IF ~LookupHasIn(lookup, measureName)
    THEN [kind |-> "impact", cacheable |-> FALSE,
          visuals |-> <<>>, dependentMeasures |-> <<>>]
    ELSE LET dms == DependentMeasures(model.tables, refs, lookup, measureName)
             vs  == IF visuals.present
                    THEN IndirectVisuals(
                            DirectVisuals(visuals.visuals, measureName, lookup[measureName]),
                            visuals.visuals, dms, 1)
                    ELSE <<>>
         IN [kind |-> "impact", cacheable |-> TRUE,
             visuals |-> vs, dependentMeasures |-> dms]

(***************************************************************************)
(* The engine as a whole: buildGraph, then queries.                        *)
(*                                                                         *)
(* The model of the engine runs: tables D (data), F (facts, measures A,    *)
(* B and C), G (a calculation group) and P (a field parameter), in the     *)
(* name order parseAll leaves them in.  Z, q and X are named by            *)
(* references but defined nowhere.                                         *)
(***************************************************************************)
T_D == <<"D">>
T_F == <<"F">>
T_G == <<"G">>
T_P == <<"P">>
T_Z == <<"Z">>
N_A == <<"A">>
N_B == <<"B">>
N_C == <<"C">>
N_X == <<"X">>
Col_c   == <<"c">>
Col_amt == <<"a", "m", "t">>
Col_g   == <<"g">>
Col_p   == <<"p">>
Col_q   == <<"q">>
Hier_h  == <<"h">>
Page_p  == <<"p", "1">>
Vis_card  == <<"c", "a", "r", "d">>
Vis_chart == <<"c", "h", "a", "r", "t">>

NoSource == [present |-> FALSE, calls |-> <<>>, nameof |-> <<>>]
SqlCall(server, database) ==
    [type |-> <<"s", "q", "l">>, server |-> server, database |-> database, url |-> <<>>]
MSource(calls, nameof) == [present |-> TRUE, calls |-> calls, nameof |-> nameof]
PlainColumn(name) == [name |-> name, nameof |-> <<>>]

LineageTables ==
    << [name |-> T_D, columns |-> <<PlainColumn(Col_c)>>, measures |-> <<>>,
        partitions |-> <<[source |-> MSource(<<SqlCall(<<"s">>, <<"d">>)>>, <<>>)]>>,
        calculationGroup |-> <<>>],
       [name |-> T_F, columns |-> <<PlainColumn(Col_amt)>>,
        measures |-> <<[name |-> N_A], [name |-> N_B], [name |-> N_C]>>,
        partitions |-> <<[source |-> MSource(<<SqlCall(<<"S">>, <<"d">>),
                                               SqlCall(<<"s">>, <<"w">>)>>, <<>>)]>>,
        calculationGroup |-> <<>>],
       [name |-> T_G, columns |-> <<PlainColumn(Col_g)>>, measures |-> <<>>,
        partitions |-> <<[source |-> NoSource]>>,
        calculationGroup |-> <<[name |-> <<"Y">>]>>],
       [name |-> T_P, columns |-> <<PlainColumn(Col_p)>>, measures |-> <<>>,
        partitions |-> <<[source |-> MSource(<<>>,
                             <<[table |-> T_F, column |-> N_B],
                               [table |-> T_D, column |-> Col_c]>>)]>>,
        calculationGroup |-> <<>>] >>

LineageMeasures == {N_A, N_B, N_C}

\* What the DAX of one measure may reference: at most MaxMeasureRefs
\* references, to measures, columns and tables.
MeasureRefPool == {N_B, N_C, N_X}
ColumnRefPool  == {[table |-> T_D, column |-> Col_c], [table |-> T_Z, column |-> Col_q]}
TableRefPool   == {T_D}

RefsCount(r) == Len(r.measureRefs) + Len(r.columnRefs) + Len(r.tableRefs)

RefsChoices ==
    {r \in [measureRefs : SeqsNoDup(MeasureRefPool, MaxMeasureRefs),
            columnRefs  : SeqsNoDup(ColumnRefPool, MaxMeasureRefs),
            tableRefs   : SeqsNoDup(TableRefPool, MaxMeasureRefs)] :
        RefsCount(r) <= MaxMeasureRefs}

\* extractAllReferences gives an entry to every measure that has an
\* expression; C may have none.  At most MaxLineageRefs references in all.
MeasureRefsChoices ==
    UNION {{f \in [has -> RefsChoices] :
               SumLen([n \in has |-> [k \in 1..RefsCount(f[n]) |-> k]], has)
                  <= MaxLineageRefs} :
           has \in {LineageMeasures, LineageMeasures \ {N_C}}}

Field(type, table, name) == [type |-> type, table |-> table, name |-> name]

FieldPool ==
    {Field("measure", T_F, N_A), Field("measure", T_F, N_B),
     Field("column", T_D, Col_c), Field("column", T_G, Col_g),
     Field("column", T_P, Col_p), Field("column", T_Z, Col_q),
     Field("hierarchy", T_D, Hier_h)}

Visual(name, fields) == [pageName |-> Page_p, visualName |-> name, fields |-> fields]

\* The reports of the model: none; one visual with at most one field; two
\* visuals of one page, the second showing measure B (as the first may)
\* and titled like the first (untitled visuals are named after their type)
\* or not.
VisualChoices ==
    {[present |-> FALSE, visuals |-> <<>>]}
    \cup {[present |-> TRUE, visuals |-> <<Visual(Vis_card, fs)>>] :
             fs \in {<<>>} \cup {<<f>> : f \in FieldPool}}
    \cup {[present |-> TRUE,
           visuals |-> <<Visual(Vis_card, <<f1>>),
                         Visual(n2, <<Field("measure", T_F, N_B)>>)>>] :
             f1 \in {Field("measure", T_F, N_A), Field("measure", T_F, N_B),
                     Field("column", T_P, Col_p)},
             n2 \in {Vis_card, Vis_chart}}

InitLineage ==
    /\ MUnused
    /\ measureRefs \in MeasureRefsChoices
    /\ visualData \in VisualChoices
    /\ parsedModel = [tables |-> LineageTables, expressions |-> <<>>]
    /\ measureLookup = <<>>
    /\ dataSources = <<>>
    /\ nodes = <<>>
    /\ edges = <<>>
    /\ calcGroupTables = {}
    /\ fieldParamTables = {}
    /\ measureChainCache = <<>>
    /\ visualLineageCache = <<>>
    /\ measureImpactCache = <<>>
    /\ phase = "new"
    /\ result = NoResult
    /\ queries = 0
    /\ stack = <<>>
    /\ ret = NoCall
    /\ DaxUnused
    /\ ParseUnused

\* buildGraph(), lines 34-268
\* The fields of the engine after buildGraph
GraphStored(g) ==
    /\ measureLookup' = g.lookup
    /\ dataSources' = g.sources
    /\ nodes' = g.nodes
    /\ edges' = g.edges
    /\ calcGroupTables' = g.cg
    /\ fieldParamTables' = g.fp
    /\ measureChainCache' = g.cache

BuildGraph ==
    /\ phase = "new"
    /\ GraphStored(buildGraph([nodes |-> nodes, edges |-> edges,
                               cache |-> measureChainCache,
                               cg |-> calcGroupTables, fp |-> fieldParamTables,
                               lookup |-> measureLookup, sources |-> dataSources],
                              parsedModel, visualData, measureRefs))
    /\ phase' = "built"
    /\ UNCHANGED <<daxVars, parseVars, mVars, parsedModel, visualData, measureRefs, visualLineageCache,
                   measureImpactCache, result, queries, stack, ret>>

\* What a getVisualLineage call returned
LineageAnswer(pageName, visualName, v) ==
    [op |-> "getVisualLineage", page |-> pageName, visual |-> visualName, value |-> v]

\* Lines 485-486: the lineage is cached and returned; line 328 returns null
\* without caching it
LineageStored(pageName, visualName, cacheKey, call) ==
    /\ result' = LineageAnswer(pageName, visualName, call.value)
    /\ measureChainCache' = call.cache
    /\ visualLineageCache' =
          IF call.value.kind = "null" THEN visualLineageCache
          ELSE Put(visualLineageCache, cacheKey, call.value)

\* Lines 321-322: a cached lineage is returned as it is
LineageLookedUp(pageName, visualName, cacheKey) ==
    IF cacheKey \in DOMAIN visualLineageCache
    THEN /\ result' = LineageAnswer(pageName, visualName, visualLineageCache[cacheKey])
         /\ UNCHANGED <<visualLineageCache, measureChainCache>>
    ELSE LineageStored(pageName, visualName, cacheKey,
                       getVisualLineage(parsedModel, visualData, measureRefs,
                                        measureLookup, fieldParamTables,
                                        measureChainCache, pageName, visualName))

\* getVisualLineage(pageName, visualName), lines 320-487
GetVisualLineage(pageName, visualName) ==
    /\ phase = "built"
    /\ queries < MaxQueries
    /\ queries' = queries + 1
    /\ LineageLookedUp(pageName, visualName, pageName \o <<"|">> \o visualName)
    /\ UNCHANGED <<daxVars, parseVars, mVars, parsedModel, visualData, measureRefs, measureLookup, dataSources,
                   nodes, edges, calcGroupTables, fieldParamTables,
                   measureImpactCache, phase, stack, ret>>

\* getMeasureImpact(measureName), lines 494-562
GetMeasureImpact(measureName) ==
    /\ phase = "built"
    /\ queries < MaxQueries
    /\ queries' = queries + 1
    /\ LET value == getMeasureImpact(parsedModel, visualData, measureRefs,
                                     measureLookup, measureName)
           Answer(v) == [op |-> "getMeasureImpact", name |-> measureName,
                         visuals |-> v.visuals,
                         dependentMeasures |-> v.dependentMeasures]
       IN IF measureName \in DOMAIN measureImpactCache
          THEN /\ result' = Answer(measureImpactCache[measureName])
               /\ UNCHANGED measureImpactCache
          ELSE /\ result' = Answer(value)
               /\ measureImpactCache' =
                     IF value.cacheable THEN Put(measureImpactCache, measureName, value)
                     ELSE measureImpactCache
    /\ UNCHANGED <<daxVars, parseVars, mVars, parsedModel, visualData, measureRefs, measureLookup, dataSources,
                   nodes, edges, calcGroupTables, fieldParamTables,
                   measureChainCache, visualLineageCache, phase, stack, ret>>

NextLineage ==
    \/ BuildGraph
    \/ \E v \in {Vis_card, Vis_chart} : GetVisualLineage(Page_p, v)
    \/ \E n \in MeasureRefPool : GetMeasureImpact(n)

SpecLineage == InitLineage /\ [][NextLineage]_vars

(***************************************************************************)
(* The other queries of the engine: resolveMeasureChain called from        *)
(* outside, getFieldLineage, getAllDataSources and getLineageSummary.      *)
(***************************************************************************)
\* Lines 575-582: the Set of tables of a measure field, in insertion order
FieldTables(refs, table, field, chain) ==
    AddAll(
        IF field \in DOMAIN refs
        THEN AddAll(AddAll(<<table>>,
                           [k \in 1..Len(refs[field].columnRefs) |->
                               refs[field].columnRefs[k].table]),
                    refs[field].tableRefs)
        ELSE <<table>>,
        [k \in 1..Len(chain) |-> chain[k].table])

\* Lines 594-601: what getFieldLineage returns for a measure
MeasureFieldLineage(model, table, field, chain, tbls) ==
    [type |-> "measure", name |-> field, table |-> table, chain |-> chain,
     tables |-> tbls, dataSources |-> TableSources(model.tables, tbls)]

\* Lines 572-601: the chain is resolved first, which may fill the chain cache
MeasureFieldCall(model, refs, table, field, call) ==
    [value |-> MeasureFieldLineage(model, table, field, call.value,
                                   FieldTables(refs, table, field, call.value)),
     cache |-> call.cache]

\* getFieldLineage(type, table, field), lines 571-619: the value returned and
\* the measure-chain cache left
getFieldLineage(model, refs, lookup, cache, type, table, field) ==
    IF type = "measure"
    THEN MeasureFieldCall(model, refs, table, field,
                          resolveMeasureChain(refs, lookup, cache, field))
    ELSE [value |-> [type |-> type, name |-> field, table |-> table,
                     dataSources |-> TableSources(model.tables, <<table>>)],
          cache |-> cache]

\* String(n) for a count
DigitChars == <<"0", "1", "2", "3", "4", "5", "6", "7", "8", "9">>

RECURSIVE NumberText(_)
NumberText(n) ==
    IF n < 10 THEN <<DigitChars[n + 1]>>
    ELSE NumberText(n \div 10) \o <<DigitChars[(n % 10) + 1]>>

\* Lines 641, 645, 648, 651: a count and its noun, plural unless the count is 1
Counted(n, noun) == NumberText(n) \o noun \o (IF n # 1 THEN <<"s">> ELSE <<>>)

\* The character U+2192 the parts are joined with
Arrow == "<u2192>"

\* Lines 637-656: the summary of a lineage; '' when there is none
LineageSummaryOf(lineage, colCount) ==
    Join((IF Len(lineage.measures) > 0
          THEN <<Counted(Len(lineage.measures), <<" ", "m", "e", "a", "s", "u", "r", "e">>)>>
          ELSE <<>>)
         \o (IF colCount > 0
             THEN <<Counted(colCount, <<" ", "c", "o", "l", "u", "m", "n">>)>>
             ELSE <<>>)
         \o (IF Len(lineage.tables) > 0
             THEN <<Counted(Len(lineage.tables), <<" ", "t", "a", "b", "l", "e">>)>>
             ELSE <<>>)
         \o (IF Len(lineage.dataSources) > 0
             THEN <<Counted(Len(lineage.dataSources), <<" ", "s", "o", "u", "r", "c", "e">>)>>
             ELSE <<>>),
         <<" ", Arrow, " ">>)

LineageSummary(lineage) ==
    IF lineage.kind = "null" THEN <<>>
    ELSE LineageSummaryOf(lineage,
                          Len(lineage.columns) + Len(lineage.expandedCalcItems)
                             + Len(lineage.expandedFPItems))

\* this.getVisualLineage(pageName, visualName) as getLineageSummary calls it
\* (line 636): the lineage, and the two caches as the call leaves them
LineageCallStoredPartial(cacheKey, call) ==
    [value |-> call.value, cache |-> call.cache,
     lineages |-> IF call.value.kind = "null" THEN visualLineageCache
                  ELSE Put(visualLineageCache, cacheKey,
                           [call.value EXCEPT !.dataSources = <<>>])]

LineageCallStored(cacheKey, call) ==
    [value |-> call.value, cache |-> call.cache,
     lineages |-> IF call.value.kind = "null" THEN visualLineageCache
                  ELSE Put(visualLineageCache, cacheKey, call.value)]

LineageCall(pageName, visualName, cacheKey) ==
    IF cacheKey \in DOMAIN visualLineageCache
    THEN [value |-> visualLineageCache[cacheKey], cache |-> measureChainCache,
          lineages |-> visualLineageCache]
    ELSE LineageCallStored(cacheKey,
                           getVisualLineage(parsedModel, visualData, measureRefs,
                                            measureLookup, fieldParamTables,
                                            measureChainCache, pageName, visualName))

\* What a query other than getVisualLineage and getMeasureImpact returned
Answer(op, args, v) == [op |-> op, args |-> args, value |-> v]

\* A query that may fill the measure-chain cache and touches nothing else
ChainQuery(op, args, call) ==
    /\ phase = "built"
    /\ queries < MaxQueries
    /\ queries' = queries + 1
    /\ result' = Answer(op, args, call.value)
    /\ measureChainCache' = call.cache
    /\ UNCHANGED <<daxVars, parseVars, mVars, parsedModel, visualData, measureRefs,
                   measureLookup, dataSources, nodes, edges, calcGroupTables,
                   fieldParamTables, visualLineageCache, measureImpactCache,
                   phase, stack, ret>>

\* resolveMeasureChain(measureName) called on the engine, lines 276-312
ResolveMeasureChain(measureName) ==
    ChainQuery("resolveMeasureChain", <<measureName>>,
               resolveMeasureChain(measureRefs, measureLookup, measureChainCache,
                                   measureName))

\* getFieldLineage(type, table, field), lines 571-619
GetFieldLineage(type, table, field) ==
    ChainQuery("getFieldLineage", <<<<type>>, table, field>>,
               getFieldLineage(parsedModel, measureRefs, measureLookup,
                               measureChainCache, type, table, field))

\* getAllDataSources(), lines 625-627
GetAllDataSources ==
    ChainQuery("getAllDataSources", <<>>,
               [value |-> dataSources, cache |-> measureChainCache])

\* getLineageSummary(pageName, visualName), lines 635-657
SummaryReturned(pageName, visualName, call) ==
    /\ result' = Answer("getLineageSummary", <<pageName, visualName>>,
                        LineageSummary(call.value))
    /\ measureChainCache' = call.cache
    /\ visualLineageCache' = call.lineages

GetLineageSummary(pageName, visualName) ==
    /\ phase = "built"
    /\ queries < MaxQueries
    /\ queries' = queries + 1
    /\ SummaryReturned(pageName, visualName,
                       LineageCall(pageName, visualName,
                                   pageName \o <<"|">> \o visualName))
    /\ UNCHANGED <<daxVars, parseVars, mVars, parsedModel, visualData, measureRefs,
                   measureLookup, dataSources, nodes, edges, calcGroupTables,
                   fieldParamTables, measureImpactCache, phase, stack, ret>>

\* The fields getFieldLineage is asked about
FieldQueries ==
    {Field("measure", T_F, N_A), Field("measure", T_F, N_X),
     Field("column", T_D, Col_c), Field("hierarchy", T_Z, Hier_h)}

ChainQueries == {N_A, N_B, N_X}

\* buildGraph once, then any of the six queries in any order
NextEngine ==
    \/ BuildGraph
    \/ \E n \in ChainQueries : ResolveMeasureChain(n)
    \/ \E v \in {Vis_card, Vis_chart} : GetVisualLineage(Page_p, v)
    \/ \E n \in MeasureRefPool : GetMeasureImpact(n)
    \/ \E f \in FieldQueries : GetFieldLineage(f.type, f.table, f.name)
    \/ GetAllDataSources
    \/ \E v \in {Vis_card, Vis_chart} : GetLineageSummary(Page_p, v)

SpecEngine == InitLineage /\ [][NextEngine]_vars

(***************************************************************************)
(* Strings as sequences of characters, and the String methods used         *)
(***************************************************************************)
Quote   == "'"
DQuote  == "\""
Newline == "\n"

\* \w
WordChars ==
    {"a", "b", "c", "d", "e", "f", "g", "h", "i", "j", "k", "l", "m", "n", "o", "p",
     "q", "r", "s", "t", "u", "v", "w", "x", "y", "z",
     "A", "B", "C", "D", "E", "F", "G", "H", "I", "J", "K", "L", "M", "N", "O", "P",
     "Q", "R", "S", "T", "U", "V", "W", "X", "Y", "Z",
     "0", "1", "2", "3", "4", "5", "6", "7", "8", "9", "_"}

\* \s, with the byte order mark, which JS counts as white space
Bom == "<bom>"
SpaceChars == {" ", "\t", "\n", "\r", Bom}

\* the characters `.` does not match
LineTerminators == {"\n", "\r"}

\* str.substring(from - 1, to): the characters at 1-based positions from..to,
\* clamped to the string as substring does
Sub(str, from, to) ==
    LET a == IF from < 1 THEN 1 ELSE from
        b == IF to > Len(str) THEN Len(str) ELSE to
    IN IF a > b THEN <<>> ELSE SubSeq(str, a, b)

\* Whether `pat` occurs in str at position i.
At(str, i, pat) ==
    /\ i >= 1
    /\ i + Len(pat) - 1 <= Len(str)
    /\ SubSeq(str, i, i + Len(pat) - 1) = pat

\* The first position >= i where Here holds, or 0.
FirstFrom(str, i, Here(_)) ==
    IF \E j \in i..Len(str) : Here(j)
    THEN CHOOSE j \in i..Len(str) : Here(j) /\ \A k \in i..(j - 1) : ~Here(k)
    ELSE 0

\* String.prototype.trim
Trim(str) ==
    LET keep == {i \in 1..Len(str) : str[i] \notin SpaceChars}
    IN IF keep = {} THEN <<>>
       ELSE Sub(str, CHOOSE i \in keep : \A j \in keep : i <= j,
                     CHOOSE i \in keep : \A j \in keep : i >= j)

(***************************************************************************)
(* DAXReferenceExtractor (src/tmdl-parser.js, lines 670-752)               *)
(***************************************************************************)
\* dax.replace(/\/\*[\s\S]*?\*\//g, ''), line 690
RECURSIVE RemoveBlockComments(_, _)
RemoveBlockComments(str, i) ==
    IF i > Len(str) THEN <<>>
    ELSE LET close == FirstFrom(str, i + 2, LAMBDA j : At(str, j, <<"*", "/">>))
         IN IF At(str, i, <<"/", "*">>) /\ close # 0
            THEN RemoveBlockComments(str, close + 2)
            ELSE <<str[i]>> \o RemoveBlockComments(str, i + 1)

\* cleaned.replace(/\/\/.*/g, ''), line 691
RECURSIVE RemoveLineComments(_, _)
RemoveLineComments(str, i) ==
    IF i > Len(str) THEN <<>>
    ELSE IF At(str, i, <<"/", "/">>)
    THEN LET eol == FirstFrom(str, i + 2, LAMBDA j : str[j] \in LineTerminators)
         IN IF eol = 0 THEN <<>> ELSE RemoveLineComments(str, eol)
    ELSE <<str[i]>> \o RemoveLineComments(str, i + 1)

\* cleaned.replace(/"[^"]*"/g, '""'), line 692
RECURSIVE EmptyStringLiterals(_, _)
EmptyStringLiterals(str, i) ==
    IF i > Len(str) THEN <<>>
    ELSE LET close == FirstFrom(str, i + 1, LAMBDA j : str[j] = DQuote)
         IN IF str[i] = DQuote /\ close # 0
            THEN <<DQuote, DQuote>> \o EmptyStringLiterals(str, close + 1)
            ELSE <<str[i]>> \o EmptyStringLiterals(str, i + 1)

\* _cleanDAX, lines 689-694
cleanDAX(str) ==
    EmptyStringLiterals(RemoveLineComments(RemoveBlockComments(str, 1), 1), 1)

\* \[([^\]]+)\] at position i: the position of the closing bracket, or 0.
BracketEnd(str, i) ==
    LET close == FirstFrom(str, i + 1, LAMBDA j : str[j] = "]")
    IN IF i <= Len(str) /\ str[i] = "[" /\ close > i + 1 THEN close ELSE 0

\* (?<!'[^']*) at position i: no quote anywhere before i
NoQuoteBefore(str, i) == \A j \in 1..(i - 1) : str[j] # Quote

\* The test of line 707 on the character before position i
StandsAlone(str, i) ==
    LET beforeBracket == Sub(str, i - 1, i - 1)
    IN /\ beforeBracket # <<".">>
       /\ ~(beforeBracket # <<>> /\ beforeBracket[1] \in WordChars)
       /\ beforeBracket # <<Quote>>

\* _extractMeasureRefs, lines 699-713
RECURSIVE MeasureRefsFrom(_, _, _)
MeasureRefsFrom(str, i, acc) ==
    IF i > Len(str) THEN acc
    ELSE LET close == BracketEnd(str, i)
         IN IF close # 0 /\ NoQuoteBefore(str, i)
            THEN MeasureRefsFrom(str, close + 1,
                    IF StandsAlone(str, i)
                    THEN AddUnique(acc, Trim(Sub(str, i + 1, close - 1)))
                    ELSE acc)
            ELSE MeasureRefsFrom(str, i + 1, acc)

extractMeasureRefs(str) == MeasureRefsFrom(str, 1, <<>>)

\* (?:'([^']+)'|(\w+)) at position i: [ok, table, next]
TablePrefix(str, i) ==
    LET q == FirstFrom(str, i + 1, LAMBDA j : str[j] = Quote)
        e == FirstFrom(str, i, LAMBDA j : j = Len(str) \/ str[j + 1] \notin WordChars)
    IN IF i <= Len(str) /\ str[i] = Quote /\ q > i + 1
       THEN [ok |-> TRUE, table |-> Sub(str, i + 1, q - 1), next |-> q + 1]
       ELSE IF i <= Len(str) /\ str[i] \in WordChars
       THEN [ok |-> TRUE, table |-> Sub(str, i, e), next |-> e + 1]
       ELSE [ok |-> FALSE, table |-> <<>>, next |-> i]

\* _extractColumnRefs, lines 718-736.  acc is [refs, seen].
RECURSIVE ColumnRefsFrom(_, _, _)
ColumnRefsFrom(str, i, acc) ==
    IF i > Len(str) THEN acc.refs
    ELSE LET t     == TablePrefix(str, i)
             close == IF t.ok THEN BracketEnd(str, t.next) ELSE 0
             column == Trim(Sub(str, t.next + 1, close - 1))
             key   == t.table \o <<"|">> \o column
         IN IF close # 0
            THEN ColumnRefsFrom(str, close + 1,
                    IF key \in acc.seen THEN acc
                    ELSE [refs |-> Append(acc.refs, [table |-> t.table, column |-> column]),
                          seen |-> acc.seen \cup {key}])
            ELSE ColumnRefsFrom(str, i + 1, acc)

extractColumnRefs(str) == ColumnRefsFrom(str, 1, [refs |-> <<>>, seen |-> {}])

\* The table functions of the pattern of line 743, in its order
TableFunctions ==
    << <<"c","o","u","n","t","r","o","w","s">>,
       <<"r","e","l","a","t","e","d","t","a","b","l","e">>,
       <<"v","a","l","u","e","s">>,
       <<"a","l","l">>,
       <<"d","i","s","t","i","n","c","t">>,
       <<"s","u","m","m","a","r","i","z","e">>,
       <<"a","d","d","c","o","l","u","m","n","s">>,
       <<"s","e","l","e","c","t","c","o","l","u","m","n","s">>,
       <<"f","i","l","t","e","r">>,
       <<"c","a","l","c","u","l","a","t","e","t","a","b","l","e">>,
       <<"t","o","p","n">>,
       <<"g","e","n","e","r","a","t","e">>,
       <<"n","a","t","u","r","a","l","l","e","f","t","o","u","t","e","r","j","o","i","n">>,
       <<"n","a","t","u","r","a","l","i","n","n","e","r","j","o","i","n">>,
       <<"c","r","o","s","s","j","o","i","n">>,
       <<"u","n","i","o","n">>,
       <<"i","n","t","e","r","s","e","c","t">>,
       <<"e","x","c","e","p","t">>,
       <<"t","r","e","a","t","a","s">> >>

\* \s* from position i: the first position that holds no white space
SkipSpaces(str, i) ==
    LET j == FirstFrom(str, i, LAMBDA k : str[k] \notin SpaceChars)
    IN IF j = 0 THEN Len(str) + 1 ELSE j

\* The pattern of line 743 at position i: [ok, table, next]
TableCall(str, i) ==
    LET low   == toLowerCase(str)
        fns   == {k \in 1..Len(TableFunctions) : At(low, i, TableFunctions[k])}
        fn    == TableFunctions[CHOOSE k \in fns : TRUE]
        open  == SkipSpaces(str, i + Len(fn))
        t     == TablePrefix(str, SkipSpaces(str, open + 1))
        close == SkipSpaces(str, t.next)
    IN IF /\ fns # {}
          /\ open <= Len(str) /\ str[open] = "("
          /\ t.ok
          /\ close <= Len(str) /\ str[close] \in {",", ")"}
       THEN [ok |-> TRUE, table |-> t.table, next |-> close + 1]
       ELSE [ok |-> FALSE, table |-> <<>>, next |-> i]

\* _extractTableRefs, lines 741-751
RECURSIVE TableRefsFrom(_, _, _)
TableRefsFrom(str, i, acc) ==
    IF i > Len(str) THEN acc
    ELSE LET c == TableCall(str, i)
         IN IF c.ok THEN TableRefsFrom(str, c.next, AddUnique(acc, c.table))
            ELSE TableRefsFrom(str, i + 1, acc)

extractTableRefs(str) == TableRefsFrom(str, 1, <<>>)

\* The three extractions of lines 679-683 on a cleaned text
ExtractFrom(cleaned) ==
    [done |-> TRUE,
     measureRefs |-> extractMeasureRefs(cleaned),
     columnRefs  |-> extractColumnRefs(cleaned),
     tableRefs   |-> extractTableRefs(cleaned)]

\* Lines 677-683: dax.replace, the first step of _cleanDAX, throws a
\* TypeError when dax is null or undefined.
Threw == [done |-> TRUE, threw |-> TRUE]

ExtractCleaned(str) ==
    IF str \in {Null, Undefined} THEN Threw ELSE ExtractFrom(cleanDAX(str))

\* extract without the test of line 675
extractUnguarded(str) == ExtractCleaned(str)

\* extract, lines 674-684
extract(str) ==
    IF Missing(str)
    THEN [done |-> TRUE, measureRefs |-> <<>>, columnRefs |-> <<>>, tableRefs |-> <<>>]
    ELSE ExtractCleaned(str)

(***************************************************************************)
(* The extractor run on DAX texts made of at most MaxDaxTokens pieces      *)
(***************************************************************************)
DaxTokens ==
    { <<Quote>>, <<"T">>, <<Quote, "T", Quote>>, <<"[", "a", "]">>, <<"[", " ", "a", "]">>, <<".">>,
      <<DQuote>>, <<"/", "/">>, <<"/", "*">>, <<"*", "/">>, <<Newline>>,
      <<"A", "L", "L", "(", "T", ")">> }

DaxTexts ==
    UNION {{Concat(ts) : ts \in [1..k -> DaxTokens]} : k \in 0..MaxDaxTokens}

\* No engine has been made.
NoEngine ==
    /\ parsedModel = [tables |-> <<>>, expressions |-> <<>>]
    /\ visualData = [present |-> FALSE, visuals |-> <<>>]
    /\ measureRefs = <<>>
    /\ measureLookup = <<>>
    /\ dataSources = <<>>
    /\ nodes = <<>>
    /\ edges = <<>>
    /\ calcGroupTables = {}
    /\ fieldParamTables = {}
    /\ measureChainCache = <<>>
    /\ visualLineageCache = <<>>
    /\ measureImpactCache = <<>>
    /\ phase = "new"
    /\ result = NoResult
    /\ queries = 0
    /\ stack = <<>>
    /\ ret = NoCall

InitDax ==
    /\ MUnused
    /\ dax \in DaxTexts
    /\ extracted = NotExtracted
    /\ NoEngine
    /\ ParseUnused

\* DAXReferenceExtractor.extract(dax)
Extract ==
    /\ ~extracted.done
    /\ extracted' = extract(dax)
    /\ UNCHANGED <<dax, parseVars, engineVars, chainVars, mVars>>

NextDax == Extract

SpecDax == InitDax /\ [][NextDax]_vars

(***************************************************************************)
(* TMDLParser (src/tmdl-parser.js).  A file content is the sequence of its *)
(* lines, as content.split('\n') gives them.                               *)
(***************************************************************************)
\* One backtick character
Backtick == "<backtick>"

\* The words of TMDL the parser looks for
W_column == <<"c", "o", "l", "u", "m", "n">>
W_measure == <<"m", "e", "a", "s", "u", "r", "e">>
W_hierarchy == <<"h", "i", "e", "r", "a", "r", "c", "h", "y">>
W_partition == <<"p", "a", "r", "t", "i", "t", "i", "o", "n">>
W_calculationGroup == <<"c", "a", "l", "c", "u", "l", "a", "t", "i", "o", "n", "G", "r", "o", "u", "p">>
W_calculationItem == <<"c", "a", "l", "c", "u", "l", "a", "t", "i", "o", "n", "I", "t", "e", "m">>
W_level == <<"l", "e", "v", "e", "l">>
W_role == <<"r", "o", "l", "e">>
W_dataType == <<"d", "a", "t", "a", "T", "y", "p", "e">>
W_formatString == <<"f", "o", "r", "m", "a", "t", "S", "t", "r", "i", "n", "g">>
W_isHidden == <<"i", "s", "H", "i", "d", "d", "e", "n">>
W_true == <<"t", "r", "u", "e">>
W_sourceColumn == <<"s", "o", "u", "r", "c", "e", "C", "o", "l", "u", "m", "n">>
W_summarizeBy == <<"s", "u", "m", "m", "a", "r", "i", "z", "e", "B", "y">>
W_displayFolder == <<"d", "i", "s", "p", "l", "a", "y", "F", "o", "l", "d", "e", "r">>
W_dataCategory == <<"d", "a", "t", "a", "C", "a", "t", "e", "g", "o", "r", "y">>
W_ordinal == <<"o", "r", "d", "i", "n", "a", "l">>
W_mode == <<"m", "o", "d", "e">>
W_type == <<"t", "y", "p", "e">>

W_annotation == <<"a", "n", "n", "o", "t", "a", "t", "i", "o", "n">>
W_extendedProperty == <<"e", "x", "t", "e", "n", "d", "e", "d", "P", "r", "o", "p", "e", "r", "t", "y">>
W_expression == <<"e", "x", "p", "r", "e", "s", "s", "i", "o", "n">>
W_source == <<"s", "o", "u", "r", "c", "e">>
W_table == <<"t", "a", "b", "l", "e">>

W_modelPermission == <<"m", "o", "d", "e", "l", "P", "e", "r", "m", "i", "s", "s", "i", "o", "n">>
W_tablePermission == <<"t", "a", "b", "l", "e", "P", "e", "r", "m", "i", "s", "s", "i", "o", "n">>
W_filterExpression == <<"f", "i", "l", "t", "e", "r", "E", "x", "p", "r", "e", "s", "s", "i", "o", "n">>
W_null == <<"n", "u", "l", "l">>
W_tables == <<"t", "a", "b", "l", "e", "s">>
W_roles == <<"r", "o", "l", "e", "s">>

StartsWith(str, pat) == At(str, 1, pat)
Includes(str, ch) == ch \in Range(str)

\* str.indexOf(ch) as a 1-based position, 0 when absent
IndexOf(str, ch) == FirstFrom(str, 1, LAMBDA j : str[j] = ch)

\* line.search(/\S/): the 0-based position of the first character that is
\* not white space, -1 when there is none
Indent(line) ==
    LET j == FirstFrom(line, 1, LAMBDA k : line[k] \notin SpaceChars)
    IN j - 1

\* value || null
OrNull(value) == IF value = Undefined \/ value = Null \/ ~Truthy(value) THEN Null ELSE value

IsSet(value) == value # Null /\ value # Undefined /\ Truthy(value)

\* Lines 641-643: the first word of a name that is not quoted
FirstWord(nameStr) ==
    IF \E j \in 1..Len(nameStr) : nameStr[j] \in SpaceChars
    THEN Sub(nameStr, 1, FirstFrom(nameStr, 1, LAMBDA j : nameStr[j] \in SpaceChars) - 1)
    ELSE nameStr

\* Lines 636-643: a quoted name is what stands between the quotes
NameOf(nameStr) ==
    IF nameStr # <<>> /\ nameStr[1] = Quote
                     /\ FirstFrom(nameStr, 2, LAMBDA j : nameStr[j] = Quote) > 2
    THEN Sub(nameStr, 2, FirstFrom(nameStr, 2, LAMBDA j : nameStr[j] = Quote) - 1)
    ELSE IF Truthy(FirstWord(nameStr)) THEN FirstWord(nameStr) ELSE nameStr

\* Lines 632-634: the text before the first `=`
BeforeEq(afterKeyword) ==
    IF IndexOf(afterKeyword, "=") > 0
    THEN Trim(Sub(afterKeyword, 1, IndexOf(afterKeyword, "=") - 1))
    ELSE afterKeyword

\* _extractName, lines 630-644
extractName(line, keyword) ==
    NameOf(BeforeEq(Trim(Sub(line, Len(keyword) + 1, Len(line)))))

ObjectTypes ==
    << W_column, W_measure, W_hierarchy,
       W_partition, W_calculationGroup,
       W_calculationItem, W_level, W_role >>

\* _detectObjectType, lines 290-298; <<>> stands for null
detectObjectType(line) ==
    LET hits == {k \in 1..Len(ObjectTypes) :
                    \/ StartsWith(line, ObjectTypes[k] \o <<" ">>)
                    \/ StartsWith(line, ObjectTypes[k] \o <<"\t">>)}
    IN IF hits = {} THEN <<>>
       ELSE ObjectTypes[CHOOSE k \in hits : \A j \in hits : k <= j]

\* The length of the leading white space of a line, l.match(/^(\s*)/)
LeadingSpace(line) == IF Indent(line) < 0 THEN Len(line) ELSE Indent(line)

Min(a, b) == IF a < b THEN a ELSE b

RECURSIVE DropEmptyEnds(_)
DropEmptyEnds(lines) ==
    IF lines = <<>> THEN lines
    ELSE IF Trim(lines[1]) = <<>> THEN DropEmptyEnds(Tail(lines))
    ELSE IF Trim(lines[Len(lines)]) = <<>>
    THEN DropEmptyEnds(SubSeq(lines, 1, Len(lines) - 1))
    ELSE lines

\* The buffer joined without the common indentation taken off.
cleanExpressionIndented(lines) ==
    LET nonEmpty == {i \in 1..Len(lines) : Trim(lines[i]) # <<>>}
        cleaned == [i \in 1..Len(lines) |->
                       IF Trim(lines[i]) = <<>> THEN <<>> ELSE lines[i]]
    IN IF nonEmpty = {} THEN Null
       ELSE Join(DropEmptyEnds(cleaned), <<"\n">>)

\* _cleanExpression, lines 381-404
cleanExpression(lines) ==
    LET nonEmpty == {i \in 1..Len(lines) : Trim(lines[i]) # <<>>}
        minIndent == CHOOSE m \in {LeadingSpace(lines[i]) : i \in nonEmpty} :
                        \A i \in nonEmpty : m <= LeadingSpace(lines[i])
        cleaned == [i \in 1..Len(lines) |->
                       IF Trim(lines[i]) = <<>> THEN <<>>
                       ELSE Sub(lines[i], Min(minIndent, Indent(lines[i])) + 1,
                                Len(lines[i]))]
    IN IF nonEmpty = {} THEN Null
       ELSE Join(DropEmptyEnds(cleaned), <<"\n">>)

Prop(obj, key) == IF key \in DOMAIN obj.properties THEN OrNull(obj.properties[key]) ELSE Null

\* Lines 311-375: the object o with the expression text expressionText is
\* added to the table
AddObject(o, expressionText, table) ==
    CASE o.type = W_column ->
           [table EXCEPT !.columns = Append(@,
               [name |-> o.name, description |-> o.description,
                dataType |-> Prop(o, W_dataType),
                formatString |-> Prop(o, W_formatString),
                isHidden |-> (W_isHidden \in DOMAIN o.properties
                                /\ o.properties[W_isHidden] = W_true),
                sourceColumn |-> Prop(o, W_sourceColumn),
                summarizeBy |-> Prop(o, W_summarizeBy),
                expression |-> expressionText])]
      [] o.type = W_measure ->
           [table EXCEPT !.measures = Append(@,
               [name |-> o.name, description |-> o.description,
                expression |-> expressionText,
                displayFolder |-> Prop(o, W_displayFolder),
                formatString |-> Prop(o, W_formatString),
                dataCategory |-> Prop(o, W_dataCategory)])]
      [] o.type = W_hierarchy ->
           [table EXCEPT !.hierarchies = Append(@,
               [name |-> o.name, description |-> o.description, levels |-> <<>>])]
      [] o.type = W_level ->
           IF Len(table.hierarchies) > 0
           THEN [table EXCEPT !.hierarchies[Len(table.hierarchies)].levels =
                    Append(@, [name |-> o.name, column |-> Prop(o, W_column),
                               ordinal |-> Prop(o, W_ordinal)])]
           ELSE table
      [] o.type = W_partition ->
           [table EXCEPT !.partitions = Append(@,
               [name |-> o.name, mode |-> Prop(o, W_mode),
                source |-> expressionText, sourceType |-> Prop(o, W_type)])]
      [] o.type = W_calculationGroup ->
           [table EXCEPT !.calculationGroup = [items |-> <<>>]]
      [] o.type = W_calculationItem ->
           IF table.calculationGroup # NoObject
           THEN [table EXCEPT !.calculationGroup.items =
                    Append(@, [name |-> o.name, expression |-> expressionText])]
           ELSE table
      [] OTHER -> table

\* _finishCurrentObject, lines 303-376: the table it leaves
finishCurrentObject(currentObject, currentExpression, table) ==
    IF currentObject = NoObject THEN table
    ELSE AddObject(currentObject,
                   IF Len(currentExpression) > 0
                   THEN cleanExpression(currentExpression) ELSE Null,
                   table)

\* Text.startsWith of one of two words
IsAnnotation(trimmed) ==
    StartsWith(trimmed, W_annotation) \/ StartsWith(trimmed, W_extendedProperty)

\* /^(?:expression|source)\s*=/.test(trimmed), line 235
StartsExpression(trimmed) ==
    \E w \in {W_expression, W_source} :
        /\ StartsWith(trimmed, w)
        /\ LET j == SkipSpaces(trimmed, Len(w) + 1)
           IN j <= Len(trimmed) /\ trimmed[j] = "="

\* The text after the first `=` of a line, trimmed
AfterEq(trimmed) == Trim(Sub(trimmed, IndexOf(trimmed, "=") + 1, Len(trimmed)))

\* currentExpression.push(text) when text is not empty
PushIf(lines, text) == IF Truthy(text) THEN Append(lines, text) ELSE lines

\* The local variables of parseTable before the first line, lines 114-131
ParseTableStart ==
    [state |-> "IDLE", currentObject |-> NoObject, currentExpression |-> <<>>,
     pendingDescription |-> Null, baseIndent |-> 0, expressionIndent |-> 0,
     inBacktickBlock |-> FALSE,
     table |-> [name |-> Null, description |-> Null, isHidden |-> FALSE,
                columns |-> <<>>, measures |-> <<>>, hierarchies |-> <<>>,
                partitions |-> <<>>, calculationGroup |-> NoObject]]

\* A table property that can be set but not taken back.
TablePropertySticky(ps, key, value) ==
    IF key = W_isHidden
    THEN [ps EXCEPT !.table.isHidden = @ \/ (value = W_true)]
    ELSE ps

\* Lines 251-256: a property of the table itself
TableProperty(ps, key, value) ==
    IF key = W_isHidden
    THEN [ps EXCEPT !.table.isHidden = (value = W_true)]
    ELSE ps

\* Lines 232-278: a line handled as a property of the table or of the
\* current object; ps.state is PROPERTIES or TABLE_BODY.
PropertyLine(ps, trimmed, indent) ==
    LET colonIndex == IndexOf(trimmed, ":")
        key   == Trim(Sub(trimmed, 1, colonIndex - 1))
        value == Trim(Sub(trimmed, colonIndex + 1, Len(trimmed)))
    IN IF indent > ps.baseIndent /\ Includes(trimmed, ":")
       THEN IF StartsExpression(trimmed)
            THEN [ps EXCEPT !.currentExpression = PushIf(@, AfterEq(trimmed)),
                            !.state = "EXPRESSION",
                            !.expressionIndent = indent + 1]
            ELSE IF ps.state = "TABLE_BODY" /\ ps.currentObject = NoObject
            THEN TableProperty(ps, key, value)
            ELSE IF ps.currentObject # NoObject
            THEN [ps EXCEPT !.currentObject.properties = Put(@, key, value)]
            ELSE ps
       ELSE IF indent > ps.baseIndent /\ IsAnnotation(trimmed)
       THEN ps
       ELSE IF /\ ps.currentObject # NoObject
               /\ indent > ps.baseIndent
               /\ StartsWith(trimmed, <<"=">>)
       THEN [ps EXCEPT !.currentExpression = PushIf(@, Trim(Sub(trimmed, 2, Len(trimmed)))),
                       !.state = "EXPRESSION",
                       !.expressionIndent = indent + 1]
       ELSE ps

\* One turn of the loop of parseTable, lines 133-279
TableLine(ps, line) ==
    LET trimmed == Trim(line)
        indent  == Indent(line)
        objectType == detectObjectType(trimmed)
    IN IF trimmed = <<Backtick, Backtick, Backtick>>
       THEN [ps EXCEPT !.inBacktickBlock = ~@,
                       !.currentExpression =
                          IF ps.state = "EXPRESSION" THEN Append(@, trimmed) ELSE @]
       ELSE IF ps.inBacktickBlock /\ ps.state = "EXPRESSION"
       THEN [ps EXCEPT !.currentExpression = Append(@, line)]
       ELSE IF StartsWith(trimmed, <<"/", "/", "/">>)
       THEN LET descText == Trim(Sub(trimmed, 4, Len(trimmed)))
            IN [ps EXCEPT !.pendingDescription =
                   IF IsSet(@) THEN @ \o <<Newline>> \o descText ELSE descText]
       ELSE IF StartsWith(trimmed, <<"/", "/">>) \/ trimmed = <<>>
       THEN ps
       ELSE IF indent = 0 /\ StartsWith(trimmed, W_table)
       THEN [ps EXCEPT !.table =
                   [finishCurrentObject(ps.currentObject, ps.currentExpression, @)
                       EXCEPT !.name = extractName(trimmed, W_table),
                              !.description =
                                 IF IsSet(ps.pendingDescription)
                                 THEN ps.pendingDescription ELSE @],
                       !.pendingDescription = IF IsSet(@) THEN Null ELSE @,
                       !.state = "TABLE_BODY",
                       !.baseIndent = 0]
       ELSE IF ps.state # "IDLE" /\ indent > 0 /\ indent <= 4 /\ Truthy(objectType)
       THEN [ps EXCEPT !.table =
                   finishCurrentObject(ps.currentObject, ps.currentExpression, @),
                       !.currentExpression =
                          IF Includes(trimmed, "=") THEN PushIf(<<>>, AfterEq(trimmed))
                          ELSE <<>>,
                       !.currentObject =
                          [type |-> objectType,
                           name |-> extractName(trimmed, objectType),
                           description |-> OrNull(ps.pendingDescription),
                           properties |-> <<>>],
                       !.pendingDescription = Null,
                       !.baseIndent = indent,
                       !.state = IF Includes(trimmed, "=") THEN "EXPRESSION"
                                 ELSE "PROPERTIES",
                       !.expressionIndent =
                          IF Includes(trimmed, "=") THEN indent + 1 ELSE @]
       ELSE IF ps.state = "EXPRESSION" /\ indent > ps.baseIndent
       THEN [ps EXCEPT !.currentExpression = Append(@, line)]
       ELSE IF ps.state = "IDLE"
       THEN ps
       ELSE \* an expression that was being collected ends here (line 226)
            PropertyLine([ps EXCEPT !.state = IF @ = "EXPRESSION" THEN "PROPERTIES" ELSE @],
                         trimmed, indent)

RECURSIVE TableLines(_, _, _)
TableLines(ps, lines, i) ==
    IF i > Len(lines) THEN ps ELSE TableLines(TableLine(ps, lines[i]), lines, i + 1)

\* Lines 281-284: the last object is finished
FinishTable(ps) == finishCurrentObject(ps.currentObject, ps.currentExpression, ps.table)

\* parseTable, lines 112-285
parseTable(content) == FinishTable(TableLines(ParseTableStart, content, 1))

\* trimmed.split(':')[1]?.trim(): the text between the first colon and the
\* next one; Undefined when there is no colon
SplitColon1(trimmed) ==
    LET c1 == IndexOf(trimmed, ":")
        c2 == FirstFrom(trimmed, c1 + 1, LAMBDA j : trimmed[j] = ":")
    IN IF c1 = 0 THEN Undefined
       ELSE Trim(Sub(trimmed, c1 + 1, IF c2 = 0 THEN Len(trimmed) ELSE c2 - 1))

\* Lines 522-527 and 553-558: the permission being collected is closed
ClosePermission(rs) ==
    IF rs.currentPermission = NoObject THEN rs.role
    ELSE [rs.role EXCEPT !.tablePermissions = Append(@,
            IF Len(rs.filterLines) > 0
            THEN [rs.currentPermission EXCEPT
                     !.filterExpression = Trim(Join(rs.filterLines, <<Newline>>))]
            ELSE rs.currentPermission)]

\* One turn of the loop of parseRole, lines 507-551
RoleLine(rs, line) ==
    LET trimmed == Trim(line)
        indent  == Indent(line)
    IN IF indent = 0 /\ StartsWith(trimmed, W_role)
       THEN [rs EXCEPT !.role.name = extractName(trimmed, W_role)]
       ELSE IF StartsWith(trimmed, W_modelPermission \o <<":">>)
       THEN [rs EXCEPT !.role.modelPermission = SplitColon1(trimmed)]
       ELSE IF StartsWith(trimmed, W_tablePermission)
       THEN [rs EXCEPT !.role = ClosePermission(rs),
                       !.currentPermission =
                          [table |-> extractName(trimmed, W_tablePermission),
                           filterExpression |-> Null],
                       !.filterLines = <<>>,
                       !.inFilterExpression = FALSE]
       ELSE IF /\ rs.currentPermission # NoObject
               /\ StartsWith(trimmed, W_filterExpression \o <<":">>)
       THEN [rs EXCEPT !.filterLines =
                          PushIf(@, Trim(Sub(trimmed, IndexOf(trimmed, ":") + 1,
                                             Len(trimmed)))),
                       !.inFilterExpression = TRUE]
       ELSE IF rs.inFilterExpression /\ indent > 2
       THEN [rs EXCEPT !.filterLines = Append(@, trimmed)]
       ELSE IF StartsWith(trimmed, <<"/", "/", "/">>) /\ ~IsSet(rs.role.description)
       THEN [rs EXCEPT !.role.description = Trim(Sub(trimmed, 4, Len(trimmed)))]
       ELSE rs

RECURSIVE RoleLines(_, _, _)
RoleLines(rs, lines, i) ==
    IF i > Len(lines) THEN rs ELSE RoleLines(RoleLine(rs, lines[i]), lines, i + 1)

\* parseRole, lines 494-562
parseRole(content) ==
    ClosePermission(RoleLines(
        [role |-> [name |-> Null, description |-> Null, modelPermission |-> Null,
                   tablePermissions |-> <<>>],
         currentPermission |-> NoObject, inFilterExpression |-> FALSE,
         filterLines |-> <<>>],
        content, 1))

\* The place of a letter in the alphabet, 0 for any other character
LetterIndex(ch) ==
    IF \E k \in 1..Len(LowerLetters) : ch \in {LowerLetters[k], UpperLetters[k]}
    THEN CHOOSE k \in 1..Len(LowerLetters) : ch \in {LowerLetters[k], UpperLetters[k]}
    ELSE 0

\* The first position where two texts differ under Key, 0 when none does
\* within the shorter one
FirstDiff(a, b, Key(_)) ==
    FirstFrom(a, 1, LAMBDA j : j <= Len(b) /\ Key(a[j]) # Key(b[j]))

CaseRank(ch) == IF ch \in Range(UpperLetters) THEN 1 ELSE 0

\* a.localeCompare(b) for texts of letters: the letters decide first, then
\* the length, then the case (lower case first); -1, 0 or 1
localeCompare(a, b) ==
    LET p == FirstDiff(a, b, LetterIndex)
        c == FirstDiff(a, b, CaseRank)
    IN IF p > 0 THEN (IF LetterIndex(a[p]) < LetterIndex(b[p]) THEN -1 ELSE 1)
       ELSE IF Len(a) # Len(b) THEN (IF Len(a) < Len(b) THEN -1 ELSE 1)
       ELSE IF c > 0 THEN (IF CaseRank(a[c]) < CaseRank(b[c]) THEN -1 ELSE 1)
       ELSE 0

\* What localeCompare makes of its argument: String(null) is "null"
ToCompared(name) == IF name = Null THEN W_null ELSE name

\* The place Array.prototype.sort, which is stable, gives t among the
\* sorted elements before it
RECURSIVE InsertTable(_, _)
InsertTable(sorted, t) ==
    IF sorted = <<>> THEN <<t>>
    ELSE LET last == sorted[Len(sorted)]
         IN IF localeCompare(ToCompared(last.name), ToCompared(t.name)) <= 0
            THEN Append(sorted, t)
            ELSE Append(InsertTable(SubSeq(sorted, 1, Len(sorted) - 1), t), last)

RECURSIVE SortTablesFrom(_, _, _)
SortTablesFrom(tables, i, sorted) ==
    IF i > Len(tables) THEN sorted
    ELSE SortTablesFrom(tables, i + 1, InsertTable(sorted, tables[i]))

\* Line 64, tables.sort((a, b) => a.name.localeCompare(b.name)).  Reading
\* a.name.localeCompare of a table whose name is null throws a TypeError;
\* a null b.name is compared as "null".  Which table of a pair is handed
\* over as a is up to the engine's sort, so with named and nameless tables
\* together both outcomes can happen; a sort that throws leaves the array
\* as it was.
SortOutcomes(tables) ==
    LET nameless == {i \in 1..Len(tables) : tables[i].name = Null}
        sorted   == [threw |-> FALSE, tables |-> SortTablesFrom(tables, 1, <<>>)]
        thrown   == [threw |-> TRUE, tables |-> tables]
    IN IF Len(tables) < 2 \/ nameless = {} THEN {sorted}
       ELSE IF nameless = 1..Len(tables) THEN {thrown}
       ELSE {sorted, thrown}

\* Object.keys(files).filter(f => f.startsWith(dir)), lines 46 and 55
FilesIn(fs, dir) == SelectSeq(fs, LAMBDA f : StartsWith(f.path, dir))

\* parseAll, lines 24-67, for files under tables/ and roles/: the parser
\* before the sort of line 64
ParsedFiles(p, fs) ==
    LET tableFiles == FilesIn(fs, W_tables \o <<"/">>)
        roleFiles  == FilesIn(fs, W_roles \o <<"/">>)
    IN [p EXCEPT !.model.tables =
                     @ \o [k \in 1..Len(tableFiles) |-> parseTable(tableFiles[k].content)],
                 !.model.roles =
                     @ \o [k \in 1..Len(roleFiles) |-> parseRole(roleFiles[k].content)]]

\* Lines 64-66: the tables are sorted and the model is returned
SortedModel(parsed) ==
    {[threw |-> o.threw, parser |-> [parsed EXCEPT !.model.tables = o.tables]] :
        o \in SortOutcomes(parsed.model.tables)}

\* parseAll: the parser it leaves and whether it threw
parseAll(p, fs) == SortedModel(ParsedFiles(p, fs))

\* The measures with an expression, in the order lines 653-654 meet them
MeasuresWithExpression(tables) ==
    SelectSeq(Concat([i \in 1..Len(tables) |->
                        [k \in 1..Len(tables[i].measures) |->
                            [measure |-> tables[i].measures[k],
                             table |-> tables[i].name]]]),
              LAMBDA e : IsSet(e.measure.expression))

\* Lines 656-657: the references of a measure, with its table
RefsEntry(r, table) ==
    [measureRefs |-> r.measureRefs, columnRefs |-> r.columnRefs,
     tableRefs |-> r.tableRefs, table |-> table]

RECURSIVE RefsFrom(_, _, _)
RefsFrom(entries, i, refs) ==
    IF i > Len(entries) THEN refs
    ELSE RefsFrom(entries, i + 1,
            Put(refs, entries[i].measure.name,
                RefsEntry(extract(entries[i].measure.expression), entries[i].table)))

\* extractAllReferences, lines 650-663
extractAllReferences(p) == RefsFrom(MeasuresWithExpression(p.model.tables), 1, <<>>)

(***************************************************************************)
(* App.parseModel (src/app.js, lines 351-453) on definition folders whose  *)
(* files hold at most MaxLines lines together                              *)
(***************************************************************************)
\* The lines a table file is made of
TableFileLines ==
    { <<"t", "a", "b", "l", "e", " ", "A">>,
      <<"t", "a", "b", "l", "e", " ", "B">>,
      <<"\t", "c", "o", "l", "u", "m", "n", " ", "c">>,
      <<"\t", "m", "e", "a", "s", "u", "r", "e", " ", "M", " ", "=", " ", "[", "a", "]">>,
      <<"\t", "\t", "f", "o", "r", "m", "a", "t", "S", "t", "r", "i", "n", "g", ":", " ", "0">>,
      <<"j", "u", "n", "k">>,
      <<>> }

\* The lines a role file is made of
RoleFileLines ==
    { <<"r", "o", "l", "e", " ", "R">>,
      <<"\t", "t", "a", "b", "l", "e", "P", "e", "r", "m", "i", "s", "s", "i", "o", "n", " ", "T">>,
      <<"\t", "\t", "f", "i", "l", "t", "e", "r", "E", "x", "p", "r", "e", "s", "s", "i", "o", "n", ":", " ", "[", "a", "]", " ", "=", " ", "1">> }

Path_a == <<"t", "a", "b", "l", "e", "s", "/", "a", ".", "t", "m", "d", "l">>
Path_b == <<"t", "a", "b", "l", "e", "s", "/", "b", ".", "t", "m", "d", "l">>
Path_r == <<"r", "o", "l", "e", "s", "/", "r", ".", "t", "m", "d", "l">>

\* content.split('\n') of a file of n lines
Contents(lines, n) == [1..n -> lines]

\* How many lines each of the three files has; 0 stands for a file that is
\* not there.  A file that is there has at least the one line <<>> that
\* ''.split('\n') gives.
LineCounts ==
    {c \in [{Path_a, Path_b, Path_r} -> 0..MaxLines] :
        c[Path_a] + c[Path_b] + c[Path_r] <= MaxLines}

\* The map readAllTMDLFiles (lines 583-619) returns, in the order of its
\* keys, for the contents a, b and r of the three files
Files(a, b, r) ==
    SelectSeq(<<[path |-> Path_a, content |-> a],
                [path |-> Path_b, content |-> b],
                [path |-> Path_r, content |-> r]>>,
              LAMBDA f : f.content # <<>>)

InitParse ==
    /\ MUnused
    /\ \E c \in LineCounts :
          \E a \in Contents(TableFileLines, c[Path_a]),
             b \in Contents(TableFileLines, c[Path_b]),
             r \in Contents(RoleFileLines, c[Path_r]) :
             files = Files(a, b, r)
    /\ parser = NewParser
    /\ parseAllOutcome = "none"
    /\ parseErrors = <<>>
    /\ appPc = "idle"
    /\ appOutcome = "none"
    /\ NoEngine
    /\ DaxUnused

\* parser.errors: a property the object does not have reads as undefined
ParserErrors(p) == IF "errors" \in DOMAIN p THEN p.errors ELSE Undefined

\* The warning the catch block of line 447 adds
GeneralError == [file |-> "general", line |-> Null, message |-> "TypeError"]

\* Lines 354-366: the files are parsed.  When parseAll throws, the catch
\* block of lines 446-449 records the error and the handler ends.
AppParse ==
    /\ appPc = "idle"
    /\ \E o \in parseAll(NewParser, files) :
          /\ parser' = o.parser
          /\ IF o.threw
             THEN /\ parseAllOutcome' = "threw"
                  /\ parseErrors' = Append(parseErrors, GeneralError)
                  /\ appOutcome' = "toast"
                  /\ appPc' = "done"
                  /\ UNCHANGED <<parsedModel, measureRefs>>
             ELSE /\ parseAllOutcome' = "returned"
                  /\ parsedModel' = o.parser.model
                  /\ parseErrors' = ParserErrors(o.parser)
                  /\ measureRefs' = extractAllReferences(o.parser)
                  /\ appOutcome' = "none"
                  /\ appPc' = "parsed"
    /\ UNCHANGED <<files, visualData, dataSources, nodes, edges, calcGroupTables,
                   fieldParamTables, visualLineageCache, measureImpactCache,
                   phase, result, queries, measureLookup, measureChainCache,
                   stack, ret, daxVars, mVars>>

\* Lines 368-452: the engine, the generator and the page are set up (state
\* this specification does not hold), then line 439 reads
\* this.parseErrors.length.  On undefined that read throws a TypeError, and
\* so does the push of line 447 in the catch block, whatever was thrown
\* before it: the promise parseModel returned is rejected.
AppFinish ==
    /\ appPc = "parsed"
    /\ appOutcome' = IF parseErrors = Undefined THEN "rejected"
                     ELSE IF Len(parseErrors) > 0 THEN "warning" ELSE "shown"
    /\ appPc' = "done"
    /\ UNCHANGED <<files, parser, parseAllOutcome, parseErrors, engineVars,
                   chainVars, daxVars, mVars>>

NextParse == AppParse \/ AppFinish

SpecParse == InitParse /\ [][NextParse]_vars

(***************************************************************************)
(* MExpressionParser on M texts (src/m-parser.js).  Every connector        *)
(* pattern of extractDataSources has the form                              *)
(*   name \s* ( \s* [name \s* ( \s*] arguments                             *)
(* where an argument is a double-quoted literal, or a double-quoted name   *)
(* preceded by #, neither holding a double quote.                          *)
(***************************************************************************)
\* \s* from position i: the first position that does not hold white space.
SkipSpace(str, i) ==
    IF \E k \in i..Len(str) : str[k] \notin SpaceChars
    THEN FirstFrom(str, i, LAMBDA k : str[k] \notin SpaceChars)
    ELSE Len(str) + 1

\* One argument group (literal or #-reference): the literal capture, the
\* reference capture, which alternative matched and the position after it.
\* An absent capture (undefined) and an empty one are both <<>>: the code
\* only tests captures for truthiness.
NoArg == [ok |-> FALSE, literal |-> <<>>, ref |-> <<>>, kind |-> "none", end |-> 0]

ArgClosed(str, from, close, kind) ==
    IF close = 0 THEN NoArg
    ELSE [ok      |-> TRUE,
          literal |-> IF kind = "literal" THEN Sub(str, from, close - 1) ELSE <<>>,
          ref     |-> IF kind = "reference" THEN Sub(str, from, close - 1) ELSE <<>>,
          kind    |-> kind,
          end     |-> close + 1]

ArgAt(str, i) ==
    IF At(str, i, <<DQuote>>)
    THEN ArgClosed(str, i + 1, FirstFrom(str, i + 1, LAMBDA j : str[j] = DQuote), "literal")
    ELSE IF At(str, i, <<"#", DQuote>>)
    THEN ArgClosed(str, i + 2, FirstFrom(str, i + 2, LAMBDA j : str[j] = DQuote), "reference")
    ELSE NoArg

\* name \s* ( \s* for each name of the path: the position after it, or 0.
RECURSIVE HeadEnd(_, _, _)
HeadEnd(str, i, path) ==
    IF path = <<>> THEN i
    ELSE IF ~At(str, i, Head(path)) THEN 0
    ELSE IF ~At(str, SkipSpace(str, i + Len(Head(path))), <<"(">>) THEN 0
    ELSE HeadEnd(str, SkipSpace(str, SkipSpace(str, i + Len(Head(path))) + 1),
                 Tail(path))

NoMatch == [ok |-> FALSE, first |-> NoArg, second |-> NoArg, end |-> 0]
Matched(a1, a2, end) == [ok |-> TRUE, first |-> a1, second |-> a2, end |-> end]

\* The second argument: optional after a comma (shape "opt2") or required
\* (shape "req2"); q is the position after the white space that follows
\* the first argument.
SecondArg(str, a1, q, a2, shape) ==
    IF At(str, q, <<",">>) /\ a2.ok THEN Matched(a1, a2, a2.end)
    ELSE IF shape = "req2" THEN NoMatch
    ELSE Matched(a1, NoArg, q)

\* The arguments at position p, after the opening parenthesis.
ArgsAt(str, p, shape, a1) ==
    IF shape = "none" THEN Matched(NoArg, NoArg, p)
    ELSE IF ~a1.ok THEN (IF shape = "opt1" THEN Matched(NoArg, NoArg, p) ELSE NoMatch)
    ELSE IF shape \in {"one", "opt1"} THEN Matched(a1, NoArg, a1.end)
    ELSE SecondArg(str, a1, SkipSpace(str, a1.end),
                   ArgAt(str, SkipSpace(str, SkipSpace(str, a1.end) + 1)), shape)

PathMatch(str, p, shape) ==
    IF p = 0 THEN NoMatch ELSE ArgsAt(str, p, shape, ArgAt(str, p))

\* The match of one pattern at position i of str (i <= Len(str)); alts are
\* the alternatives of the name, in the order the regular expression tries
\* them.  A match begins with the first character of the name.
RECURSIVE MatchAt(_, _, _, _)
MatchAt(str, i, alts, shape) ==
    IF alts = <<>> THEN NoMatch
    ELSE IF /\ str[i] = Head(alts)[1][1]
            /\ PathMatch(str, HeadEnd(str, i, Head(alts)), shape).ok
    THEN PathMatch(str, HeadEnd(str, i, Head(alts)), shape)
    ELSE MatchAt(str, i, Tail(alts), shape)

\* while ((match = pattern.exec(mExpression)) !== null): the matches of a
\* global pattern, left to right, each search starting where the last
\* match ended.
RECURSIVE MatchesFrom(_, _, _, _)
MatchesFrom(str, i, alts, shape) ==
    IF i > Len(str) THEN <<>>
    ELSE IF MatchAt(str, i, alts, shape).ok
    THEN <<MatchAt(str, i, alts, shape)>>
         \o MatchesFrom(str, MatchAt(str, i, alts, shape).end, alts, shape)
    ELSE MatchesFrom(str, i + 1, alts, shape)

Matches(str, alts, shape) == MatchesFrom(str, 1, alts, shape)

\* The connector patterns of extractDataSources, lines 19-254, in the order
\* they are applied: the type of the source, the alternatives of the name
\* (a path of names for the nested File.Contents patterns), the shape of the
\* arguments, the field the first argument goes to, and whether the source
\* takes the expression-wide isParameterized flag and a parameters list
\* (SQL Server only, lines 27-28).
Connector(type, alts, shape, field, sql) ==
    [type |-> type, alts |-> alts, shape |-> shape, field |-> field, sql |-> sql]

Connectors ==
    <<Connector(<<"S", "Q", "L", " ", "S", "e", "r", "v", "e", "r">>,
                <<<<<<"S", "q", "l", ".", "D", "a", "t", "a", "b", "a", "s", "e", "s">>>>, <<<<"S", "q", "l", ".", "D", "a", "t", "a", "b", "a", "s", "e">>>>>>,
                "opt2", "server", TRUE),
      Connector(<<"A", "n", "a", "l", "y", "s", "i", "s", " ", "S", "e", "r", "v", "i", "c", "e", "s">>,
                <<<<<<"A", "n", "a", "l", "y", "s", "i", "s", "S", "e", "r", "v", "i", "c", "e", "s", ".", "D", "a", "t", "a", "b", "a", "s", "e">>>>>>,
                "opt2", "server", FALSE),
      Connector(<<"O", "D", "a", "t", "a">>,
                <<<<<<"O", "D", "a", "t", "a", ".", "F", "e", "e", "d">>>>>>,
                "one", "url", FALSE),
      Connector(<<"W", "e", "b">>,
                <<<<<<"W", "e", "b", ".", "C", "o", "n", "t", "e", "n", "t", "s">>>>>>,
                "one", "url", FALSE),
      Connector(<<"S", "h", "a", "r", "e", "P", "o", "i", "n", "t", " ", "T", "a", "b", "l", "e", "s">>,
                <<<<<<"S", "h", "a", "r", "e", "P", "o", "i", "n", "t", ".", "T", "a", "b", "l", "e", "s">>>>>>,
                "one", "url", FALSE),
      Connector(<<"S", "h", "a", "r", "e", "P", "o", "i", "n", "t", " ", "F", "i", "l", "e", "s">>,
                <<<<<<"S", "h", "a", "r", "e", "P", "o", "i", "n", "t", ".", "F", "i", "l", "e", "s">>>>>>,
                "one", "url", FALSE),
      Connector(<<"E", "x", "c", "e", "l">>,
                <<<<<<"E", "x", "c", "e", "l", ".", "W", "o", "r", "k", "b", "o", "o", "k">>, <<"F", "i", "l", "e", ".", "C", "o", "n", "t", "e", "n", "t", "s">>>>>>,
                "one", "path", FALSE),
      Connector(<<"C", "S", "V">>,
                <<<<<<"C", "s", "v", ".", "D", "o", "c", "u", "m", "e", "n", "t">>, <<"F", "i", "l", "e", ".", "C", "o", "n", "t", "e", "n", "t", "s">>>>>>,
                "one", "path", FALSE),
      Connector(<<"A", "z", "u", "r", "e", " ", "B", "l", "o", "b", " ", "S", "t", "o", "r", "a", "g", "e">>,
                <<<<<<"A", "z", "u", "r", "e", "S", "t", "o", "r", "a", "g", "e", ".", "B", "l", "o", "b", "s">>>>>>,
                "one", "url", FALSE),
      Connector(<<"D", "a", "t", "a", "v", "e", "r", "s", "e">>,
                <<<<<<"D", "a", "t", "a", "v", "e", "r", "s", "e", ".", "C", "o", "n", "t", "e", "n", "t", "s">>>>>>,
                "opt1", "url", FALSE),
      Connector(<<"S", "n", "o", "w", "f", "l", "a", "k", "e">>,
                <<<<<<"S", "n", "o", "w", "f", "l", "a", "k", "e", ".", "D", "a", "t", "a", "b", "a", "s", "e", "s">>>>>>,
                "opt2", "server", FALSE),
      Connector(<<"O", "r", "a", "c", "l", "e">>,
                <<<<<<"O", "r", "a", "c", "l", "e", ".", "D", "a", "t", "a", "b", "a", "s", "e">>>>>>,
                "one", "server", FALSE),
      Connector(<<"G", "o", "o", "g", "l", "e", " ", "B", "i", "g", "Q", "u", "e", "r", "y">>,
                <<<<<<"G", "o", "o", "g", "l", "e", "B", "i", "g", "Q", "u", "e", "r", "y", ".", "D", "a", "t", "a", "b", "a", "s", "e">>>>>>,
                "opt1", "server", FALSE),
      Connector(<<"P", "o", "s", "t", "g", "r", "e", "S", "Q", "L">>,
                <<<<<<"P", "o", "s", "t", "g", "r", "e", "S", "Q", "L", ".", "D", "a", "t", "a", "b", "a", "s", "e">>>>>>,
                "req2", "server", FALSE),
      Connector(<<"M", "y", "S", "Q", "L">>,
                <<<<<<"M", "y", "S", "Q", "L", ".", "D", "a", "t", "a", "b", "a", "s", "e">>>>>>,
                "req2", "server", FALSE),
      Connector(<<"T", "e", "r", "a", "d", "a", "t", "a">>,
                <<<<<<"T", "e", "r", "a", "d", "a", "t", "a", ".", "D", "a", "t", "a", "b", "a", "s", "e">>>>>>,
                "one", "server", FALSE),
      Connector(<<"S", "A", "P", " ", "H", "A", "N", "A">>,
                <<<<<<"S", "a", "p", "H", "a", "n", "a", ".", "D", "a", "t", "a", "b", "a", "s", "e">>>>>>,
                "one", "server", FALSE),
      Connector(<<"O", "D", "B", "C">>,
                <<<<<<"O", "d", "b", "c", ".", "D", "a", "t", "a", "S", "o", "u", "r", "c", "e">>>>, <<<<"O", "d", "b", "c", ".", "Q", "u", "e", "r", "y">>>>>>,
                "one", "server", FALSE),
      Connector(<<"P", "o", "w", "e", "r", " ", "B", "I", " ", "D", "a", "t", "a", "f", "l", "o", "w">>,
                <<<<<<"P", "o", "w", "e", "r", "B", "I", ".", "D", "a", "t", "a", "f", "l", "o", "w", "s">>>>>>,
                "none", "none", FALSE),
      Connector(<<"A", "z", "u", "r", "e", " ", "D", "a", "t", "a", " ", "E", "x", "p", "l", "o", "r", "e", "r">>,
                <<<<<<"A", "z", "u", "r", "e", "D", "a", "t", "a", "E", "x", "p", "l", "o", "r", "e", "r", ".", "C", "o", "n", "t", "e", "n", "t", "s">>>>, <<<<"K", "u", "s", "t", "o", ".", "C", "o", "n", "t", "e", "n", "t", "s">>>>>>,
                "opt2", "server", FALSE),
      Connector(<<"F", "a", "b", "r", "i", "c", " ", "L", "a", "k", "e", "h", "o", "u", "s", "e">>,
                <<<<<<"L", "a", "k", "e", "h", "o", "u", "s", "e", ".", "C", "o", "n", "t", "e", "n", "t", "s">>>>>>,
                "none", "none", FALSE),
      Connector(<<"F", "a", "b", "r", "i", "c", " ", "W", "a", "r", "e", "h", "o", "u", "s", "e">>,
                <<<<<<"F", "a", "b", "r", "i", "c", ".", "W", "a", "r", "e", "h", "o", "u", "s", "e">>>>>>,
                "one", "server", FALSE),
      Connector(<<"D", "a", "t", "a", "b", "r", "i", "c", "k", "s">>,
                <<<<<<"D", "a", "t", "a", "b", "r", "i", "c", "k", "s", ".", "C", "a", "t", "a", "l", "o", "g", "s">>>>>>,
                "one", "server", FALSE)>>

\* _extractParameterRefs, lines 263-274: the names of the #"name" tokens
\* (name not empty) that are declared, or of all of them when no set of
\* declared names is given.
RECURSIVE ParameterRefsFrom(_, _, _)
ParameterRefsFrom(str, i, declared) ==
    IF i > Len(str) THEN <<>>
    ELSE IF At(str, i, <<"#", DQuote>>) /\ ArgAt(str, i).ok /\ ArgAt(str, i).ref # <<>>
    THEN (IF ~declared.defined \/ ArgAt(str, i).ref \in declared.names
          THEN <<ArgAt(str, i).ref>> ELSE <<>>)
         \o ParameterRefsFrom(str, ArgAt(str, i).end, declared)
    ELSE ParameterRefsFrom(str, i + 1, declared)

extractParameterRefs(str, declared) == ParameterRefsFrom(str, 1, declared)

\* match[2] || match[3] || null
Captured(arg) == IF Truthy(arg.literal) THEN arg.literal ELSE arg.ref

\* The object pushed for one match of one connector pattern.
SourceOf(c, match, isParameterized) ==
    [type          |-> c.type,
     server        |-> IF c.field = "server" THEN Captured(match.first) ELSE <<>>,
     database      |-> Captured(match.second),
     url           |-> IF c.field = "url" THEN Captured(match.first) ELSE <<>>,
     path          |-> IF c.field = "path" THEN Captured(match.first) ELSE <<>>,
     parameterized |-> \/ c.sql /\ isParameterized
                       \/ Truthy(match.first.ref)
                       \/ Truthy(match.second.ref),
     parameters    |-> IF c.sql /\ Truthy(match.first.ref) THEN <<match.first.ref>>
                       ELSE IF c.sql /\ Truthy(match.second.ref) THEN <<match.second.ref>>
                       ELSE <<>>]

SourcesOf(c, matches, isParameterized) ==
    [k \in 1..Len(matches) |-> SourceOf(c, matches[k], isParameterized)]

\* extractDataSources, lines 12-256, on an M text, with the value the static
\* _declaredParams has when it is called.
AllSources(text, isParameterized) ==
    Concat([n \in 1..Len(Connectors) |->
               SourcesOf(Connectors[n],
                         Matches(text, Connectors[n].alts, Connectors[n].shape),
                         isParameterized)])

ExtractDataSourcesIn(text, declared) ==
    IF Missing(text) THEN <<>>
    ELSE AllSources(text, Len(extractParameterRefs(text, declared)) > 0)

\* str contains pat (a regular expression that is a plain text, tested)
ContainsText(str, pat) == \E i \in 1..Len(str) : At(str, i, pat)

\* /IsParameterQuery\s*=\s*true/i.test(text), lines 287 and 358
EqualsTrueAt(low, p) ==
    /\ At(low, p, <<"=">>)
    /\ At(low, SkipSpace(low, p + 1), <<"t", "r", "u", "e">>)

ParameterQueryIn(low) ==
    \E i \in 1..Len(low) :
        /\ At(low, i, <<"i", "s", "p", "a", "r", "a", "m", "e", "t", "e", "r", "q", "u", "e", "r", "y">>)
        /\ EqualsTrueAt(low, SkipSpace(low, i + 16))

IsParameterQuery(text) == ParameterQueryIn(toLowerCase(text))

\* A quoted text that is not empty, then `meta [`, at position i (the
\* pattern of line 288).
MetaAfter(text, p) ==
    /\ At(text, p, <<"m", "e", "t", "a">>)
    /\ At(text, SkipSpace(text, p + 4), <<"[">>)

LiteralMetaAt(text, i) ==
    /\ ArgAt(text, i).kind = "literal"
    /\ ArgAt(text, i).literal # <<>>
    /\ MetaAfter(text, SkipSpace(text, ArgAt(text, i).end))

\* expr.expression.match(...)[1] of line 288, Null when there is no match
ParameterValue(text) ==
    IF \E i \in 1..Len(text) : LiteralMetaAt(text, i)
    THEN ArgAt(text, FirstFrom(text, 1, LAMBDA i : LiteralMetaAt(text, i))).literal
    ELSE Null

\* paramMap, lines 285-293: name -> value, a later expression of the same
\* name replacing an earlier one.
RECURSIVE ParamMapFrom(_, _, _)
ParamMapFrom(expressions, i, map) ==
    IF i > Len(expressions) THEN map
    ELSE IF /\ ~Missing(expressions[i].expression)
            /\ IsParameterQuery(expressions[i].expression)
            /\ ParameterValue(expressions[i].expression) # Null
    THEN ParamMapFrom(expressions, i + 1,
            Put(map, expressions[i].name, ParameterValue(expressions[i].expression)))
    ELSE ParamMapFrom(expressions, i + 1, map)

ParamMap(expressions) == ParamMapFrom(expressions, 1, <<>>)

\* Lines 298-302: the value a field resolves to, <<>> when it gets no
\* <field>Resolved attribute.
ResolvedField(value, paramMap) ==
    IF Truthy(value) /\ value \in DOMAIN paramMap THEN paramMap[value] ELSE <<>>

\* Lines 304-312: the parameters list resolves the server when the source
\* has neither a server nor a resolved server.
RECURSIVE ResolvedFromParameters(_, _, _, _, _)
ResolvedFromParameters(parameters, i, server, serverResolved, paramMap) ==
    IF i > Len(parameters) THEN serverResolved
    ELSE IF /\ parameters[i] \in DOMAIN paramMap
            /\ ~Truthy(server)
            /\ ~Truthy(serverResolved)
    THEN ResolvedFromParameters(parameters, i + 1, server,
                                paramMap[parameters[i]], paramMap)
    ELSE ResolvedFromParameters(parameters, i + 1, server, serverResolved, paramMap)

NotResolved ==
    [serverResolved |-> <<>>, databaseResolved |-> <<>>,
     urlResolved |-> <<>>, pathResolved |-> <<>>]

ResolveSource(source, paramMap) ==
    source @@
    [serverResolved   |-> ResolvedFromParameters(source.parameters, 1, source.server,
                              ResolvedField(source.server, paramMap), paramMap),
     databaseResolved |-> ResolvedField(source.database, paramMap),
     urlResolved      |-> ResolvedField(source.url, paramMap),
     pathResolved     |-> ResolvedField(source.path, paramMap)]

\* resolveParameters, lines 282-315.  An absent <field>Resolved attribute
\* is <<>>: a resolved value is never empty.
resolveParameters(sources, expressions) ==
    IF expressions = <<>>
    THEN [k \in 1..Len(sources) |-> sources[k] @@ NotResolved]
    ELSE [k \in 1..Len(sources) |-> ResolveSource(sources[k], ParamMap(expressions))]

\* _requiresGateway, lines 392-411: "true", "false" or "null" (unknown)
OnPremConnectors ==
    {<<"S", "Q", "L", " ", "S", "e", "r", "v", "e", "r">>, <<"O", "r", "a", "c", "l", "e">>, <<"T", "e", "r", "a", "d", "a", "t", "a">>, <<"S", "A", "P", " ", "H", "A", "N", "A">>, <<"O", "D", "B", "C">>,
     <<"A", "n", "a", "l", "y", "s", "i", "s", " ", "S", "e", "r", "v", "i", "c", "e", "s">>}

CloudConnectors ==
    {<<"A", "z", "u", "r", "e", " ", "B", "l", "o", "b", " ", "S", "t", "o", "r", "a", "g", "e">>, <<"D", "a", "t", "a", "v", "e", "r", "s", "e">>, <<"S", "n", "o", "w", "f", "l", "a", "k", "e">>, <<"G", "o", "o", "g", "l", "e", " ", "B", "i", "g", "Q", "u", "e", "r", "y">>,
     <<"P", "o", "w", "e", "r", " ", "B", "I", " ", "D", "a", "t", "a", "f", "l", "o", "w">>, <<"O", "D", "a", "t", "a">>, <<"S", "h", "a", "r", "e", "P", "o", "i", "n", "t", " ", "T", "a", "b", "l", "e", "s">>, <<"S", "h", "a", "r", "e", "P", "o", "i", "n", "t", " ", "F", "i", "l", "e", "s">>,
     <<"F", "a", "b", "r", "i", "c", " ", "L", "a", "k", "e", "h", "o", "u", "s", "e">>, <<"F", "a", "b", "r", "i", "c", " ", "W", "a", "r", "e", "h", "o", "u", "s", "e">>, <<"A", "z", "u", "r", "e", " ", "D", "a", "t", "a", " ", "E", "x", "p", "l", "o", "r", "e", "r">>,
     <<"D", "a", "t", "a", "b", "r", "i", "c", "k", "s">>, <<"W", "e", "b">>, <<"M", "y", "S", "Q", "L">>, <<"P", "o", "s", "t", "g", "r", "e", "S", "Q", "L">>}

CloudEndpoints ==
    {<<".", "d", "a", "t", "a", "b", "a", "s", "e", ".", "w", "i", "n", "d", "o", "w", "s", ".", "n", "e", "t">>, <<".", "s", "q", "l", ".", "a", "z", "u", "r", "e", "s", "y", "n", "a", "p", "s", "e", ".", "n", "e", "t">>,
     <<".", "d", "a", "t", "a", "w", "a", "r", "e", "h", "o", "u", "s", "e", ".", "f", "a", "b", "r", "i", "c", ".", "m", "i", "c", "r", "o", "s", "o", "f", "t", ".", "c", "o", "m">>, <<".", "p", "b", "i", "d", "e", "d", "i", "c", "a", "t", "e", "d", ".", "w", "i", "n", "d", "o", "w", "s", ".", "n", "e", "t">>,
     <<".", "a", "s", "a", "z", "u", "r", "e", ".", "w", "i", "n", "d", "o", "w", "s", ".", "n", "e", "t">>}

CloudIn(low) == \E e \in CloudEndpoints : ContainsText(low, e)

IsCloud(server) == CloudIn(toLowerCase(server))

SharePointIn(low) ==
    \/ ContainsText(low, <<"s", "h", "a", "r", "e", "p", "o", "i", "n", "t">>)
    \/ ContainsText(low, <<"o", "n", "e", "d", "r", "i", "v", "e">>)

IsSharePointPath(path) == SharePointIn(toLowerCase(path))

\* source.serverResolved || source.server || ''
EffectiveServer(source) ==
    IF Truthy(source.serverResolved) THEN source.serverResolved ELSE source.server

\* The classification with a boolean guessed when no rule matches.
requiresGatewayGuessing(source) ==
    IF source.type \in OnPremConnectors
    THEN (IF IsCloud(EffectiveServer(source)) THEN "false" ELSE "true")
    ELSE IF source.type \in {<<"E", "x", "c", "e", "l">>, <<"C", "S", "V">>}
    THEN (IF IsSharePointPath(source.path) THEN "false" ELSE "true")
    ELSE "false"

requiresGateway(source) ==
    IF source.type \in OnPremConnectors
    THEN (IF IsCloud(EffectiveServer(source)) THEN "false" ELSE "true")
    ELSE IF source.type \in {<<"E", "x", "c", "e", "l">>, <<"C", "S", "V">>}
    THEN (IF IsSharePointPath(source.path) THEN "false" ELSE "true")
    ELSE IF source.type \in CloudConnectors THEN "false"
    ELSE "null"

\* Lines 356-361: the names of the expressions that are parameter queries
DeclaredParams(expressions) ==
    DeclaredSet({expressions[i].name : i \in {j \in 1..Len(expressions) :
        /\ ~Missing(expressions[j].expression)
        /\ IsParameterQuery(expressions[j].expression)}})

\* Lines 363-374: the sources of one partition with a source, tagged
Tagged(sources, tableName, partitionName) ==
    [k \in 1..Len(sources) |->
        sources[k] @@ [tableName |-> tableName, partitionName |-> partitionName]]

TaggedSources(tableName, partition, declared) ==
    IF Missing(partition.source) THEN <<>>
    ELSE Tagged(ExtractDataSourcesIn(partition.source, declared),
                tableName, partition.name)

TaggedTableSources(table, declared) ==
    Concat([i \in 1..Len(table.partitions) |->
               TaggedSources(table.name, table.partitions[i], declared)])

\* Lines 379-382: gatewayRequired is set unless the classification is null.
WithGateway(source, gw) ==
    source @@ [gatewayRequired |-> IF gw = "null" THEN "absent" ELSE gw]

ClassifiedSources(resolved) ==
    [k \in 1..Len(resolved) |-> WithGateway(resolved[k], requiresGateway(resolved[k]))]

\* extractAllFromModel, lines 352-385, on a model whose partition sources
\* are M texts: the value returned.
ExtractAllFromModelIn(model) ==
    deduplicateSources(ClassifiedSources(resolveParameters(
        Concat([i \in 1..Len(model.tables) |->
                   TaggedTableSources(model.tables[i], DeclaredParams(model.expressions))]),
        model.expressions)))

(***************************************************************************)
(* MExpressionParser run on a model of one table with one partition whose  *)
(* source is an M text of at most MaxMTokens pieces, or is missing, and    *)
(* with at most one shared expression, named P.                            *)
(***************************************************************************)
N_P == <<"P">>
N_T == <<"T">>
N_p == <<"p">>

MTokens ==
    {<<"S", "q", "l", ".", "D", "a", "t", "a", "b", "a", "s", "e", "(">>, <<"W", "e", "b", ".", "C", "o", "n", "t", "e", "n", "t", "s", "(">>, <<DQuote, "a", DQuote>>, <<DQuote, "P", DQuote>>, <<DQuote, DQuote>>,
     <<"#", DQuote, "P", DQuote>>, <<"#", DQuote, "Q", DQuote>>, <<",">>, <<")">>}

MTexts ==
    UNION {{Concat(ts) : ts \in [1..k -> MTokens]} : k \in 0..MaxMTokens}

\* A parameter query with a text value, a parameter query with a number
\* value, and a shared expression that is not a parameter query.
ParameterQueryText == <<DQuote, "v", ".", "d", "a", "t", "a", "b", "a", "s", "e", ".", "w", "i", "n", "d", "o", "w", "s", ".", "n", "e", "t", DQuote, " ", "m", "e", "t", "a", " ", "[", "I", "s", "P", "a", "r", "a", "m", "e", "t", "e", "r", "Q", "u", "e", "r", "y", "=", "t", "r", "u", "e", "]">>
ParameterQueryNumber == <<"1", " ", "m", "e", "t", "a", " ", "[", "I", "s", "P", "a", "r", "a", "m", "e", "t", "e", "r", "Q", "u", "e", "r", "y", "=", "t", "r", "u", "e", "]">>
SharedQuery == <<DQuote, "v", DQuote>>

MExpressionLists ==
    {<<>>} \cup {<<[name |-> N_P, expression |-> e]>> :
                    e \in {ParameterQueryText, ParameterQueryNumber, SharedQuery}}

\* The parsed model handed to extractAllFromModel
MModel ==
    [expressions |-> mExpressions,
     tables |-> <<[name |-> N_T,
                   partitions |-> <<[name |-> N_p, source |-> mText]>>]>>]

InitM ==
    /\ NoEngine
    /\ DaxUnused
    /\ ParseUnused
    /\ mText \in MTexts \cup {Null, Undefined}
    /\ mExpressions \in MExpressionLists
    /\ declaredParams = NoDeclaredParams
    /\ mArgument = <<>>
    /\ mSources = <<>>
    /\ mCall = "none"
    /\ mOutcome = "none"

\* MExpressionParser.extractDataSources(mText)
ExtractDataSources ==
    /\ mSources' = ExtractDataSourcesIn(mText, declaredParams)
    /\ mCall' = "extractDataSources"
    /\ mOutcome' = "returned"
    /\ UNCHANGED <<mText, mExpressions, declaredParams, mArgument,
                   engineVars, chainVars, daxVars, parseVars>>

\* MExpressionParser.extractAllFromModel(MModel)
ExtractAllFromModel ==
    /\ declaredParams' = DeclaredParams(mExpressions)
    /\ mSources' = ExtractAllFromModelIn(MModel)
    /\ mCall' = "extractAllFromModel"
    /\ mOutcome' = "returned"
    /\ UNCHANGED <<mText, mExpressions, mArgument,
                   engineVars, chainVars, daxVars, parseVars>>

NextM == ExtractDataSources \/ ExtractAllFromModel

SpecM == InitM /\ [][NextM]_vars

(***************************************************************************)
(* deduplicateSources and the gateway classification run on lists of at    *)
(* most MaxSources sources.  The sources are those extractDataSources and  *)
(* resolveParameters make of the texts below, and one source of a type     *)
(* that no connector pattern produces.                                     *)
(***************************************************************************)
SourceTexts ==
    {<<"S", "q", "l", ".", "D", "a", "t", "a", "b", "a", "s", "e", "(", DQuote, "a", DQuote, ")">>,
     <<"S", "q", "l", ".", "D", "a", "t", "a", "b", "a", "s", "e", "(", DQuote, DQuote, ",", " ", DQuote, "a", DQuote, ")">>,
     <<"S", "q", "l", ".", "D", "a", "t", "a", "b", "a", "s", "e", "(", DQuote, "A", DQuote, ")">>,
     <<"S", "q", "l", ".", "D", "a", "t", "a", "b", "a", "s", "e", "(", DQuote, "a", DQuote, ",", " ", DQuote, "b", DQuote, ")">>,
     <<"S", "q", "l", ".", "D", "a", "t", "a", "b", "a", "s", "e", "(", DQuote, "a", "|", "b", DQuote, ")">>,
     <<"S", "q", "l", ".", "D", "a", "t", "a", "b", "a", "s", "e", "(", DQuote, "a", ".", "d", "a", "t", "a", "b", "a", "s", "e", ".", "w", "i", "n", "d", "o", "w", "s", ".", "n", "e", "t", DQuote, ")">>,
     <<"S", "q", "l", ".", "D", "a", "t", "a", "b", "a", "s", "e", "(", "#", DQuote, "P", DQuote, ")">>,
     <<"W", "e", "b", ".", "C", "o", "n", "t", "e", "n", "t", "s", "(", DQuote, "a", DQuote, ")">>,
     <<"E", "x", "c", "e", "l", ".", "W", "o", "r", "k", "b", "o", "o", "k", "(", "F", "i", "l", "e", ".", "C", "o", "n", "t", "e", "n", "t", "s", "(", DQuote, "a", DQuote, ")", ")">>,
     <<"C", "s", "v", ".", "D", "o", "c", "u", "m", "e", "n", "t", "(", "F", "i", "l", "e", ".", "C", "o", "n", "t", "e", "n", "t", "s", "(", DQuote, "h", "t", "t", "p", "s", ":", "/", "/", "x", ".", "s", "h", "a", "r", "e", "p", "o", "i", "n", "t", ".", "c", "o", "m", "/", "a", ".", "c", "s", "v", DQuote, ")", ")">>,
     <<"G", "o", "o", "g", "l", "e", "B", "i", "g", "Q", "u", "e", "r", "y", ".", "D", "a", "t", "a", "b", "a", "s", "e", "(", ")">>}

CustomSource ==
    [type |-> <<"C", "u", "s", "t", "o", "m">>, server |-> <<>>, database |-> <<>>, url |-> <<>>,
     path |-> <<>>, parameterized |-> FALSE, parameters |-> <<>>] @@ NotResolved

SourcePool ==
    {CustomSource}
    \cup UNION {Range(resolveParameters(ExtractDataSourcesIn(t, NoDeclaredParams), es)) :
                   t \in SourceTexts,
                   es \in {<<>>, <<[name |-> N_P, expression |-> ParameterQueryText]>>}}

InitSources ==
    /\ NoEngine
    /\ DaxUnused
    /\ ParseUnused
    /\ mText = <<>>
    /\ mExpressions = <<>>
    /\ declaredParams = NoDeclaredParams
    /\ mArgument \in UNION {[1..k -> SourcePool] : k \in 0..MaxSources}
    /\ mSources = <<>>
    /\ mCall = "none"
    /\ mOutcome = "none"

\* MExpressionParser.deduplicateSources(mArgument)
DeduplicateSources ==
    /\ mSources' = deduplicateSources(mArgument)
    /\ mCall' = "deduplicateSources"
    /\ mOutcome' = "returned"
    /\ UNCHANGED <<mText, mExpressions, declaredParams, mArgument,
                   engineVars, chainVars, daxVars, parseVars>>

\* MExpressionParser._requiresGateway(src) for each src of mArgument, as in
\* the loop of lines 379-382
RequiresGateway ==
    /\ mSources' = [k \in 1..Len(mArgument) |-> requiresGateway(mArgument[k])]
    /\ mCall' = "requiresGateway"
    /\ mOutcome' = "returned"
    /\ UNCHANGED <<mText, mExpressions, declaredParams, mArgument,
                   engineVars, chainVars, daxVars, parseVars>>

NextSources == DeduplicateSources \/ RequiresGateway

SpecSources == InitSources /\ [][NextSources]_vars

(***************************************************************************)
(* The two extraction functions run on texts of at most MaxTotalTokens     *)
(* pieces together, on empty texts and on null and undefined               *)
(***************************************************************************)
\* The M pieces, and pieces that leave a literal or a reference open
TotalMTokens == MTokens \cup {<<DQuote>>, <<"#">>}

TextsOf(tokens, n) == {Concat(ts) : ts \in [1..n -> tokens]}

InitTotal ==
    /\ NoEngine
    /\ ParseUnused
    /\ \E i, j \in 0..MaxTotalTokens :
          /\ i + j <= MaxTotalTokens
          /\ dax \in TextsOf(DaxTokens, i) \cup {Null, Undefined}
          /\ mText \in TextsOf(TotalMTokens, j) \cup {Null, Undefined}
    /\ extracted = NotExtracted
    /\ mExpressions = <<>>
    /\ declaredParams = NoDeclaredParams
    /\ mArgument = <<>>
    /\ mSources = <<>>
    /\ mCall = "none"
    /\ mOutcome = "none"

NextTotal == Extract \/ ExtractDataSources

SpecTotal == InitTotal /\ [][NextTotal]_vars

(***************************************************************************)
(* App.parseModel on a folder with one table file: the declaration of      *)
(* table A, the header of measure M and at most MaxExprLines further lines *)
(***************************************************************************)
Fence == <<Backtick, Backtick, Backtick>>

\* The header of the measure: the expression begins on the next line, with
\* an opening fence, or on the header line itself.
MeasureHeaders ==
    {<<"\t", "m", "e", "a", "s", "u", "r", "e", " ", "M", " ", "=">>,
     <<"\t", "m", "e", "a", "s", "u", "r", "e", " ", "M", " ", "=", " ">> \o Fence,
     <<"\t", "m", "e", "a", "s", "u", "r", "e", " ", "M", " ", "=", " ", "x">>}

\* The lines after the header: expression lines of two depths, a fence, an
\* empty line, a line of white space, and a property of the measure.
ExprLines ==
    {<<"\t", "\t", "\t", "a">>, <<"\t", "\t", "b">>, <<"\t", "\t">> \o Fence, <<>>, <<"\t", "\t", "\t">>,
     <<"\t", "f", "o", "r", "m", "a", "t", "S", "t", "r", "i", "n", "g", ":", " ", "0">>}

InitExpr ==
    /\ MUnused
    /\ NoEngine
    /\ DaxUnused
    /\ \E h \in MeasureHeaders :
          \E n \in 0..MaxExprLines :
             \E body \in [1..n -> ExprLines] :
                files = <<[path |-> Path_a,
                           content |-> <<<<"t", "a", "b", "l", "e", " ", "A">>, h>> \o body]>>
    /\ parser = NewParser
    /\ parseAllOutcome = "none"
    /\ parseErrors = <<>>
    /\ appPc = "idle"
    /\ appOutcome = "none"

SpecExpr == InitExpr /\ [][NextParse]_vars

(***************************************************************************)
(* App.parseModel on a folder with one table file: the declaration of      *)
(* table A and at most MaxHiddenLines further lines, which declare a       *)
(* column or are properties at the depth of the table's and of the         *)
(* column's properties                                                     *)
(***************************************************************************)
HiddenLines ==
    {<<"\t", "i", "s", "H", "i", "d", "d", "e", "n", ":", " ", "t", "r", "u", "e">>, <<"\t", "i", "s", "H", "i", "d", "d", "e", "n", ":", " ", "f", "a", "l", "s", "e">>, <<"\t", "c", "o", "l", "u", "m", "n", " ", "c">>,
     <<"\t", "\t", "i", "s", "H", "i", "d", "d", "e", "n", ":", " ", "t", "r", "u", "e">>, <<"\t", "l", "i", "n", "e", "a", "g", "e", "T", "a", "g", ":", " ", "1">>}

InitHidden ==
    /\ MUnused
    /\ NoEngine
    /\ DaxUnused
    /\ \E n \in 0..MaxHiddenLines :
          \E body \in [1..n -> HiddenLines] :
             files = <<[path |-> Path_a,
                        content |-> <<<<"t", "a", "b", "l", "e", " ", "A">>>> \o body]>>
    /\ parser = NewParser
    /\ parseAllOutcome = "none"
    /\ parseErrors = <<>>
    /\ appPc = "idle"
    /\ appOutcome = "none"

SpecHidden == InitHidden /\ [][NextParse]_vars

(***************************************************************************)
(* App.parseModel on a folder with one table file: the declaration of      *)
(* table A, the header of measure M with its expression and at most        *)
(* MaxBodyLines further lines                                              *)
(***************************************************************************)
\* The header of the measure: the expression is on the header line, or the
\* header line ends with an opening fence.
BodyHeaders ==
    {<<"\t", "m", "e", "a", "s", "u", "r", "e", " ", "M", " ", "=", " ", "x">>,
     <<"\t", "m", "e", "a", "s", "u", "r", "e", " ", "M", " ", "=", " ">> \o Fence}

\* The lines after the header: an expression line, a fence, a property of
\* the measure, a comment, a description comment, an empty line and the
\* header of a column.
BodyLines ==
    {<<"\t", "\t", "\t", "y">>, <<"\t", "\t">> \o Fence, <<"\t", "\t", "f", "o", "r", "m", "a", "t", "S", "t", "r", "i", "n", "g", ":", " ", "0">>,
     <<"\t", "\t", "\t", "/", "/", " ", "n">>, <<"\t", "\t", "\t", "/", "/", "/", " ", "d">>, <<>>, <<"\t", "c", "o", "l", "u", "m", "n", " ", "c">>}

InitBody ==
    /\ MUnused
    /\ NoEngine
    /\ DaxUnused
    /\ \E h \in BodyHeaders :
          \E n \in 0..MaxBodyLines :
             \E body \in [1..n -> BodyLines] :
                files = <<[path |-> Path_a,
                           content |-> <<<<"t", "a", "b", "l", "e", " ", "A">>, h>> \o body]>>
    /\ parser = NewParser
    /\ parseAllOutcome = "none"
    /\ parseErrors = <<>>
    /\ appPc = "idle"
    /\ appOutcome = "none"

SpecBody == InitBody /\ [][NextParse]_vars

(***************************************************************************)
(* App.parseModel on a folder with one table file: the declaration of      *)
(* table A and at most MaxObjectLines further lines, which declare objects *)
(***************************************************************************)
\* The lines after the declaration: the headers of a column, a measure, a
\* partition, a hierarchy, a level, a calculation group and a calculation
\* item, a further expression line, and a second table declaration.
ObjectLines ==
    {<<"\t", "c", "o", "l", "u", "m", "n", " ", "c">>, <<"\t", "m", "e", "a", "s", "u", "r", "e", " ", "M", " ", "=", " ", "x">>, <<"\t", "p", "a", "r", "t", "i", "t", "i", "o", "n", " ", "p", " ", "=", " ", "m">>,
     <<"\t", "h", "i", "e", "r", "a", "r", "c", "h", "y", " ", "h">>, <<"\t", "\t", "l", "e", "v", "e", "l", " ", "l">>, <<"\t", "c", "a", "l", "c", "u", "l", "a", "t", "i", "o", "n", "G", "r", "o", "u", "p">>,
     <<"\t", "\t", "c", "a", "l", "c", "u", "l", "a", "t", "i", "o", "n", "I", "t", "e", "m", " ", "i", " ", "=", " ", "1">>, <<"\t", "\t", "\t", "y">>, <<"t", "a", "b", "l", "e", " ", "B">>}

InitObjects ==
    /\ MUnused
    /\ NoEngine
    /\ DaxUnused
    /\ \E n \in 0..MaxObjectLines :
          \E body \in [1..n -> ObjectLines] :
             files = <<[path |-> Path_a, content |-> <<<<"t", "a", "b", "l", "e", " ", "A">>>> \o body]>>
    /\ parser = NewParser
    /\ parseAllOutcome = "none"
    /\ parseErrors = <<>>
    /\ appPc = "idle"
    /\ appOutcome = "none"

SpecObjects == InitObjects /\ [][NextParse]_vars

(***************************************************************************)
(* App.parseModel on a folder with two table files, each the declaration   *)
(* of a table and at most MaxMeasureLines lines that declare measures, of  *)
(* the same name or not, with an expression or without                     *)
(***************************************************************************)
MeasureLines ==
    {<<"\t", "m", "e", "a", "s", "u", "r", "e", " ", "M", " ", "=", " ", "[", "a", "]">>, <<"\t", "m", "e", "a", "s", "u", "r", "e", " ", "M", " ", "=", " ", "[", "b", "]">>, <<"\t", "m", "e", "a", "s", "u", "r", "e", " ", "M">>,
     <<"\t", "m", "e", "a", "s", "u", "r", "e", " ", "N", " ", "=", " ", "[", "a", "]">>, <<"\t", "c", "o", "l", "u", "m", "n", " ", "c">>}

MeasureBodies ==
    UNION {[1..n -> MeasureLines] : n \in 0..MaxMeasureLines}

InitTwoTables ==
    /\ MUnused
    /\ NoEngine
    /\ DaxUnused
    /\ \E h \in {<<"t", "a", "b", "l", "e", " ", "A">>, <<"t", "a", "b", "l", "e", " ", "B">>} :
          \E a \in MeasureBodies, b \in MeasureBodies :
             files = <<[path |-> Path_a, content |-> <<h>> \o a],
                       [path |-> Path_b, content |-> <<<<"t", "a", "b", "l", "e", " ", "A">>>> \o b]>>
    /\ parser = NewParser
    /\ parseAllOutcome = "none"
    /\ parseErrors = <<>>
    /\ appPc = "idle"
    /\ appOutcome = "none"

SpecTwoTables == InitTwoTables /\ [][NextParse]_vars

(***************************************************************************)
(* Reference notions used to state the claims about resolveMeasureChain    *)
(***************************************************************************)
\* One 'references a measure' step X -> Y.
RefStep(x) ==
    IF HasRefs(x) THEN {y \in Range(measureRefs[x].measureRefs) : LookupHas(y)} ELSE {}

RECURSIVE CloseUnder(_)
CloseUnder(R) ==
    LET R2 == R \cup UNION {RefStep(x) : x \in R}
    IN IF R2 = R THEN R ELSE CloseUnder(R2)

\* Measures reachable from n by one or more steps.
Reachable(n) == CloseUnder(RefStep(n))

AsEntry(n) == [name |-> n, table |-> measureLookup[n]]

Returned == stack = <<>> /\ ret.how # "none"

\* C1: a top-level resolveMeasureChain always terminates, also on
\* self-referential and mutually cyclic measures, and no measure is ever
\* entered twice on the current call path.
NoRevisit ==
    \A i, j \in 1..Len(stack) : i # j => stack[i].name # stack[j].name

ChainTerminates ==
    /\ []NoRevisit
    /\ (stack # <<>>) ~> (stack = <<>>)

\* C1 witness: a call on a measure that lies on a reference cycle has returned.
ChainTerminatesWitness ==
    /\ Returned
    /\ ret.how = "computed"
    /\ ret.name \in Reachable(ret.name)
    /\ \E y \in Reachable(ret.name) : y # ret.name /\ ret.name \in Reachable(y)

\* The step-by-step run and the recursive function agree.
StepwiseAgrees ==
    (Returned /\ ret.how = "computed") =>
        ret.value = ResolveIn(measureRefs, measureLookup, <<>>, ret.name, {})

\* C2: the list returned by a top-level call holds exactly the measures
\* reachable by one or more reference steps, each (table, name) pair once.
ChainIsClosure ==
    Returned =>
        /\ Range(ret.value) = {AsEntry(y) : y \in Reachable(ret.name)}
        /\ NoDup(ret.value)

\* The same statement up to the dedup key `${table}.${name}`.
ChainIsClosureUpToKey ==
    Returned =>
        /\ {MeasureKey(m) : m \in Range(ret.value)} =
              {MeasureKey(AsEntry(y)) : y \in Reachable(ret.name)}
        /\ Range(ret.value) \subseteq {AsEntry(y) : y \in Reachable(ret.name)}
        /\ NoDup(ret.value)

(***************************************************************************)
(* Claims about the engine as a whole                                      *)
(***************************************************************************)
\* What a top-level resolveMeasureChain(n) returns on the built engine.
ChainOf(n) == ResolveIn(measureRefs, measureLookup, <<>>, n, {})

NamesOf(list) == {list[k].name : k \in 1..Len(list)}

\* C3: getMeasureImpact(B).dependentMeasures contains A exactly when
\* resolveMeasureChain(A) contains B, for all measures A and B of the model.
ImpactIsInverseOfChain ==
    (result.op = "getMeasureImpact" /\ LookupHas(result.name)) =>
        \A a \in DOMAIN measureLookup :
            (a \in NamesOf(result.dependentMeasures)) <=> (result.name \in NamesOf(ChainOf(a)))

\* C4: after buildGraph both ends of every edge are nodes of the graph;
\* a reference to something absent from the model adds no edge.
EdgesHaveNodes ==
    phase = "built" =>
        \A k \in 1..Len(edges) :
            edges[k].from \in DOMAIN nodes /\ edges[k].to \in DOMAIN nodes

\* The visuals the last getVisualLineage query was made for.
AskedVisuals ==
    {v \in Range(visualData.visuals) :
        v.pageName = result.page /\ v.visualName = result.visual}

MeasuresOnly(v) == \A k \in 1..Len(v.fields) : v.fields[k].type = "measure"

\* The measures a visual uses, and those of their chains.
MeasuresBehind(v) ==
    UNION {{v.fields[k].name} \cup NamesOf(ChainOf(v.fields[k].name)) :
              k \in {j \in 1..Len(v.fields) : v.fields[j].type = "measure"}}

RefsOf(m) ==
    IF HasRefs(m) THEN measureRefs[m]
    ELSE [measureRefs |-> <<>>, columnRefs |-> <<>>, tableRefs |-> <<>>]

\* Tables named by a column or table reference of the measures behind v.
TablesBehind(v) ==
    UNION {{cr.table : cr \in Range(RefsOf(m).columnRefs)} \cup Range(RefsOf(m).tableRefs) :
              m \in MeasuresBehind(v)}

\* Keys of the sources of the partitions of those tables that exist.
SourceKeysBehind(v) ==
    UNION {{sourceKey(src) : src \in Range(PartitionSources(t))} :
              t \in {t \in Range(parsedModel.tables) : t.name \in TablesBehind(v)}}

\* C5: for a visual whose fields are measures only, the lineage returned for
\* its page and name lists every table referenced by the DAX of its measures
\* and of their chains, and every data source of those tables.
MeasureVisualLineageComplete ==
    result.op = "getVisualLineage" =>
        \A v \in {w \in AskedVisuals : MeasuresOnly(w)} :
            /\ result.value.kind = "lineage"
            /\ TablesBehind(v) \subseteq NamesOf(result.value.tables)
            /\ SourceKeysBehind(v) \subseteq
                  {sourceKey(src) : src \in Range(result.value.dataSources)}

\* C6: the columns list of a visual's lineage includes the columns referenced
\* by the DAX of the visual's measures and of the measures in their chains.
ChainColumnsReported ==
    (result.op = "getVisualLineage" /\ result.value.kind = "lineage") =>
        LET vi == FindVisual(visualData, result.page, result.visual)
        IN \A m \in MeasuresBehind(visualData.visuals[vi]) :
              Range(RefsOf(m).columnRefs) \subseteq Range(result.value.columns)

(***************************************************************************)
(* Claims about TMDLParser.parseAll and its caller                         *)
(***************************************************************************)
\* C7: for every map of files parseAll returns a Model without throwing;
\* a file without a declaration line only leaves its table nameless.
ParseAllNeverThrows == parseAllOutcome # "threw"

\* C8: after parseAll has returned, the caller finds a list of warnings
\* under parser.errors and can take its length; parseModel is not left by
\* an error of its own.
ParserExposesWarnings ==
    parseAllOutcome = "returned" =>
        /\ parseErrors # Undefined
        /\ appOutcome # "rejected"

(***************************************************************************)
(* Claims about DAXReferenceExtractor                                      *)
(***************************************************************************)
\* The bracket tokens [Name] of a text, left to right: the positions of
\* their opening brackets.
RECURSIVE BracketTokensFrom(_, _)
BracketTokensFrom(str, i) ==
    IF i > Len(str) THEN {}
    ELSE LET close == BracketEnd(str, i)
         IN IF close # 0 THEN {i} \cup BracketTokensFrom(str, close + 1)
            ELSE BracketTokensFrom(str, i + 1)

Qualifiers == WordChars \cup {".", Quote}

\* The names of the bracket tokens not immediately preceded by a qualifier.
UnqualifiedNames(str) ==
    {Trim(Sub(str, i + 1, BracketEnd(str, i) - 1)) :
        i \in {j \in BracketTokensFrom(str, 1) : j = 1 \/ str[j - 1] \notin Qualifiers}}

\* C9: after pre-cleaning, a bracket token [Name] is a measure ref exactly
\* when the character before its `[` is not `.`, not an identifier
\* character and not `'`; and each (table, column) is in columnRefs once.
MeasureRefsAreUnqualifiedTokens ==
    extracted.done =>
        /\ Range(extracted.measureRefs) = UnqualifiedNames(cleanDAX(dax))
        /\ NoDup(extracted.columnRefs)

\* A lexer for DAX: a string literal runs to its closing quote, a line
\* comment to the end of its line, a block comment to its `*/`; literals are
\* emptied and comments removed.  ok is FALSE when a literal or a block
\* comment is not closed.
RECURSIVE Lex(_, _)
Lex(str, i) ==
    IF i > Len(str) THEN [text |-> <<>>, ok |-> TRUE]
    ELSE IF str[i] = DQuote
    THEN LET close == FirstFrom(str, i + 1, LAMBDA j : str[j] = DQuote)
             rest  == Lex(str, close + 1)
         IN IF close = 0 THEN [text |-> <<>>, ok |-> FALSE]
            ELSE [text |-> <<DQuote, DQuote>> \o rest.text, ok |-> rest.ok]
    ELSE IF At(str, i, <<"/", "/">>)
    THEN LET eol == FirstFrom(str, i + 2, LAMBDA j : str[j] \in LineTerminators)
         IN IF eol = 0 THEN [text |-> <<>>, ok |-> TRUE] ELSE Lex(str, eol)
    ELSE IF At(str, i, <<"/", "*">>)
    THEN LET close == FirstFrom(str, i + 2, LAMBDA j : At(str, j, <<"*", "/">>))
         IN IF close = 0 THEN [text |-> <<>>, ok |-> FALSE] ELSE Lex(str, close + 2)
    ELSE LET rest == Lex(str, i + 1)
         IN [text |-> <<str[i]>> \o rest.text, ok |-> rest.ok]

\* C10: the references extracted are those of the text outside string
\* literals and comments: none from inside a literal or a comment, none lost
\* because of one, also when a literal holds `//` or a comment holds a quote.
LiteralsAndCommentsIgnored ==
    (extracted.done /\ Truthy(dax) /\ Lex(dax, 1).ok) =>
        LET outside == ExtractFrom(Lex(dax, 1).text)
        IN /\ Range(extracted.measureRefs) = Range(outside.measureRefs)
           /\ Range(extracted.columnRefs) = Range(outside.columnRefs)
           /\ Range(extracted.tableRefs) = Range(outside.tableRefs)

(***************************************************************************)
(* Claims about MExpressionParser                                          *)
(***************************************************************************)
\* The connector matches of an M text, in the order of their sources.
AllMatches(text) ==
    Concat([n \in 1..Len(Connectors) |->
               Matches(text, Connectors[n].alts, Connectors[n].shape)])

IsReference(arg) == arg.kind = "reference"

Retains(source, arg) ==
    IsReference(arg) =>
        \/ arg.ref \in {source.server, source.database, source.url, source.path}
        \/ arg.ref \in Range(source.parameters)

\* C11: the source made from a connector match is parameterized exactly
\* when an argument captured by that match is a #"Name" reference, and the
\* names referenced are kept in the source.
ParameterizedIffReferenceArgument ==
    (mCall = "extractDataSources" /\ ~Missing(mText)) =>
        /\ Len(mSources) = Len(AllMatches(mText))
        /\ \A k \in 1..Len(mSources) :
              /\ mSources[k].parameterized =
                    (\/ IsReference(AllMatches(mText)[k].first)
                     \/ IsReference(AllMatches(mText)[k].second))
              /\ Retains(mSources[k], AllMatches(mText)[k].first)
              /\ Retains(mSources[k], AllMatches(mText)[k].second)

\* Two sources have the same identity when they agree, letter case aside,
\* on each of type, server, database, url and path.
SameIdentity(s, t) ==
    /\ toLowerCase(s.type) = toLowerCase(t.type)
    /\ toLowerCase(s.server) = toLowerCase(t.server)
    /\ toLowerCase(s.database) = toLowerCase(t.database)
    /\ toLowerCase(s.url) = toLowerCase(t.url)
    /\ toLowerCase(s.path) = toLowerCase(t.path)

RECURSIVE FirstOfEachIdentity(_, _)
FirstOfEachIdentity(all, i) ==
    IF i > Len(all) THEN <<>>
    ELSE (IF \E j \in 1..(i - 1) : SameIdentity(all[j], all[i])
          THEN <<>> ELSE <<all[i]>>)
         \o FirstOfEachIdentity(all, i + 1)

\* C12: deduplicateSources returns, in the order of the list, the first
\* source of each identity, and no other source.
DedupKeepsFirstOfEachIdentity ==
    mCall = "deduplicateSources" => mSources = FirstOfEachIdentity(mArgument, 1)

\* The classification the gateway rule gives: the server of a source whose
\* server was resolved from a parameter is the resolved one.
HasCloudEndpoint(server) ==
    \E e \in CloudEndpoints :
        \E i \in 1..Len(server) :
            /\ i + Len(e) - 1 <= Len(server)
            /\ \A k \in 1..Len(e) : LowerCh(server[i + k - 1]) = e[k]

MentionsSharePoint(path) ==
    \E w \in {<<"s", "h", "a", "r", "e", "p", "o", "i", "n", "t">>,
              <<"o", "n", "e", "d", "r", "i", "v", "e">>} :
        \E i \in 1..Len(path) :
            /\ i + Len(w) - 1 <= Len(path)
            /\ \A k \in 1..Len(w) : LowerCh(path[i + k - 1]) = w[k]

GatewayRule(source) ==
    CASE source.type \in OnPremConnectors ->
            IF HasCloudEndpoint(IF source.serverResolved # <<>>
                                THEN source.serverResolved ELSE source.server)
            THEN "false" ELSE "true"
      [] source.type \in {<<"E", "x", "c", "e", "l">>, <<"C", "S", "V">>} ->
            IF MentionsSharePoint(source.path) THEN "false" ELSE "true"
      [] source.type \in CloudConnectors -> "false"
      [] OTHER -> "null"

\* C13: the gateway classification of every source is the one the rule
\* gives: one of true, false and unknown (null), the same for equal sources,
\* and unknown, never a boolean, for a type in none of the three lists.
GatewayClassificationFollowsRule ==
    mCall = "requiresGateway" =>
        /\ Len(mSources) = Len(mArgument)
        /\ \A k \in 1..Len(mArgument) :
              /\ mSources[k] \in {"true", "false", "null"}
              /\ mSources[k] = GatewayRule(mArgument[k])
              /\ \A j \in 1..Len(mArgument) :
                    mArgument[j] = mArgument[k] => mSources[j] = mSources[k]

\* A source of an unknown type, an on-premises-capable source with a cloud
\* server and one with another server have been classified.
GatewayClassificationWitness ==
    /\ mCall = "requiresGateway"
    /\ Len(mArgument) = MaxSources
    /\ \E k \in 1..Len(mArgument) : mSources[k] = "null"
    /\ \E k \in 1..Len(mArgument) :
          mSources[k] = "false" /\ mArgument[k].type \in OnPremConnectors
    /\ \E k \in 1..Len(mArgument) :
          mSources[k] = "true" /\ mArgument[k].type \in OnPremConnectors

\* The value of a parameter query whose body is a quoted text literal
\* (followed by its meta record), Null for any other expression.
SimpleLiteralValue(expression) ==
    IF /\ ArgAt(Trim(expression), 1).kind = "literal"
       /\ ArgAt(Trim(expression), 1).literal # <<>>
       /\ IsParameterQuery(expression)
    THEN ArgAt(Trim(expression), 1).literal
    ELSE Null

\* A <field>Resolved attribute is justified when the argument the field was
\* captured from is a reference to a parameter query of that value.
JustifiedBy(resolved, arg, expressions) ==
    resolved # <<>> =>
        /\ IsReference(arg)
        /\ \E i \in 1..Len(expressions) :
              /\ expressions[i].name = arg.ref
              /\ SimpleLiteralValue(expressions[i].expression) = resolved

\* C14: in the sources extractAllFromModel returns, a field has a resolved
\* value only when it was captured from a reference to a parameter query
\* whose body is a quoted text literal, the resolved value is that literal,
\* and the field itself is as extractDataSources captured it.
ResolvedOnlyFromParameterReference ==
    (mCall = "extractAllFromModel" /\ Len(mSources) = Len(AllMatches(mText))) =>
        \A k \in 1..Len(mSources) :
            /\ JustifiedBy(mSources[k].serverResolved, AllMatches(mText)[k].first,
                           mExpressions)
            /\ JustifiedBy(mSources[k].urlResolved, AllMatches(mText)[k].first,
                           mExpressions)
            /\ JustifiedBy(mSources[k].pathResolved, AllMatches(mText)[k].first,
                           mExpressions)
            /\ JustifiedBy(mSources[k].databaseResolved, AllMatches(mText)[k].second,
                           mExpressions)
            /\ mSources[k].server = Captured(AllMatches(mText)[k].first)
                  \/ mSources[k].server = <<>>
            /\ mSources[k].database = Captured(AllMatches(mText)[k].second)

(***************************************************************************)
(* Claims about both extraction functions                                  *)
(***************************************************************************)
\* C15: extract and extractDataSources return for every text, for the
\* empty text and for null and undefined, and never throw; what they return
\* for an empty or missing text holds no reference and no source.
ExtractionIsTotal ==
    /\ extracted.done =>
          /\ extracted # Threw
          /\ Missing(dax) =>
                /\ extracted.measureRefs = <<>>
                /\ extracted.columnRefs = <<>>
                /\ extracted.tableRefs = <<>>
    /\ mCall = "extractDataSources" =>
          /\ mOutcome = "returned"
          /\ Missing(mText) => mSources = <<>>

\* extract has returned for null, and extractDataSources for a connector
\* call whose argument is not closed.
ExtractionIsTotalWitness ==
    /\ extracted.done
    /\ dax = Null
    /\ mCall = "extractDataSources"
    /\ mText = <<"S", "q", "l", ".", "D", "a", "t", "a", "b", "a", "s", "e", "(", DQuote>>

(***************************************************************************)
(* Claims about TMDLParser.parseTable                                      *)
(***************************************************************************)
\* The lines of a text
RECURSIVE LinesOf(_)
LinesOf(text) ==
    IF Newline \notin Range(text) THEN <<text>>
    ELSE <<SubSeq(text, 1, IndexOf(text, Newline) - 1)>>
         \o LinesOf(SubSeq(text, IndexOf(text, Newline) + 1, Len(text)))

IsBlank(line) == \A i \in 1..Len(line) : line[i] \in SpaceChars

\* The number of white-space characters a line begins with
LeadingWhite(line) ==
    Cardinality({i \in 1..Len(line) : \A j \in 1..i : line[j] \in SpaceChars})

\* The file of the folder, the buffer parseTable has captured for measure M
\* when the file ends, and the expression of M in the parsed model
TheContent == files[1].content
TheBuffer == TableLines(ParseTableStart, TheContent, 1).currentExpression
TheExpression == parser.model.tables[1].measures[1].expression

\* out is what is left of the buffer lines first..last when every line that
\* is not blank loses its first m characters and blank lines stay blank.
DedentedRun(out, buffer, first, last, m) ==
    /\ Len(out) = last - first + 1
    /\ \A i \in 1..Len(out) :
          IF IsBlank(buffer[first + i - 1]) THEN IsBlank(out[i])
          ELSE out[i] = SubSeq(buffer[first + i - 1], m + 1, Len(buffer[first + i - 1]))

DedentOf(out, buffer, nonBlank) ==
    \E first, last \in nonBlank, m \in 0..Len(buffer[CHOOSE i \in nonBlank : TRUE]) :
          /\ \A i \in nonBlank : first <= i /\ i <= last
          /\ \A i \in nonBlank : m <= LeadingWhite(buffer[i])
          /\ \E i \in nonBlank : m = LeadingWhite(buffer[i])
          /\ DedentedRun(out, buffer, first, last, m)
          /\ \E j \in 1..Len(out) : ~IsBlank(out[j]) /\ LeadingWhite(out[j]) = 0

\* C16: the expression of a parsed object is its captured buffer with the
\* least leading white space of the lines that are not blank taken from
\* every such line, and without the blank lines at its two ends; the least
\* indented line begins without white space and the other lines keep their
\* depth relative to it.
ExpressionIsDedentedBuffer ==
    parseAllOutcome = "returned" =>
        IF \A i \in 1..Len(TheBuffer) : IsBlank(TheBuffer[i])
        THEN TheExpression = Null
        ELSE /\ TheExpression # Null
             /\ DedentOf(LinesOf(TheExpression), TheBuffer,
                         {i \in 1..Len(TheBuffer) : ~IsBlank(TheBuffer[i])})

\* A measure whose expression has four lines of two depths has been parsed.
ExpressionIsDedentedWitness ==
    /\ parseAllOutcome = "returned"
    /\ Len(TheBuffer) = 4
    /\ \A i \in 1..4 : ~IsBlank(TheBuffer[i]) /\ LeadingWhite(TheBuffer[i]) >= 2
    /\ \E i, j \in 1..4 : LeadingWhite(TheBuffer[i]) < LeadingWhite(TheBuffer[j])
    /\ Len(LinesOf(TheExpression)) = 4

\* The fenced block of the measure: its opening fence ends the header line
\* or is the line after a header that ends with `=`; its closing fence is
\* the next line that is a fence.
IsFenceLine(line) == Trim(line) = Fence

OpeningFence ==
    IF Len(TheContent[2]) >= 3
       /\ SubSeq(TheContent[2], Len(TheContent[2]) - 2, Len(TheContent[2])) = Fence
    THEN 2
    ELSE IF /\ TheContent[2][Len(TheContent[2])] = "="
            /\ Len(TheContent) >= 3
            /\ IsFenceLine(TheContent[3])
    THEN 3
    ELSE 0

ClosingFence ==
    IF OpeningFence # 0
       /\ \E i \in (OpeningFence + 1)..Len(TheContent) : IsFenceLine(TheContent[i])
    THEN CHOOSE i \in (OpeningFence + 1)..Len(TheContent) :
            /\ IsFenceLine(TheContent[i])
            /\ \A j \in (OpeningFence + 1)..(i - 1) : ~IsFenceLine(TheContent[j])
    ELSE 0

\* A line is kept when it is the same, a blank line when it is blank.
KeptAs(line, out) == out = line \/ (IsBlank(line) /\ IsBlank(out))

\* The lines from..to of the file are a run of lines of out.
HoldsRun(out, from, to) ==
    \E s \in 0..Len(out) :
        /\ s + (to - from + 1) <= Len(out)
        /\ \A i \in from..to : KeptAs(TheContent[i], out[s + i - from + 1])

\* C17: the expression of a measure written as a fenced block holds the
\* lines between the two fences, blank lines included, each with the
\* indentation it has in the file.
FencedBlockKeptVerbatim ==
    (parseAllOutcome = "returned" /\ ClosingFence # 0) =>
        /\ TheExpression # Null
        /\ HoldsRun(LinesOf(TheExpression), OpeningFence + 1, ClosingFence - 1)

\* The table parsed from the file, and the lines of the file that come
\* before its first object: the properties of the table itself.
TheTable == parser.model.tables[1]

OpensObject(line) ==
    /\ Indent(line) > 0
    /\ Indent(line) <= 4
    /\ Truthy(detectObjectType(Trim(line)))

BeforeObjects ==
    {i \in 2..Len(TheContent) : \A j \in 2..i : ~OpensObject(TheContent[j])}

\* Line i is an isHidden property of the table; the value it gives.
TableIsHiddenLine(i) ==
    /\ i \in BeforeObjects
    /\ Indent(TheContent[i]) > 0
    /\ Includes(TheContent[i], ":")
    /\ Trim(SubSeq(TheContent[i], 1, IndexOf(TheContent[i], ":") - 1)) = W_isHidden

SaysTrue(i) ==
    Trim(SubSeq(TheContent[i], IndexOf(TheContent[i], ":") + 1,
                Len(TheContent[i]))) = W_true

\* C18 as stated: table.isHidden is true exactly when some property line of
\* the table is `isHidden: true`.
TableHiddenIffSomeLineSaysTrue ==
    parseAllOutcome = "returned" =>
        (TheTable.isHidden <=>
            \E i \in 1..Len(TheContent) : TableIsHiddenLine(i) /\ SaysTrue(i))

\* C18: table.isHidden is true exactly when the last isHidden property line
\* of the table says true; it is false when the table has no such line, and
\* the isHidden property of a column does not change it.
TableHiddenIffLastLineSaysTrue ==
    parseAllOutcome = "returned" =>
        (TheTable.isHidden <=>
            \E i \in 1..Len(TheContent) :
                /\ TableIsHiddenLine(i)
                /\ SaysTrue(i)
                /\ \A j \in (i + 1)..Len(TheContent) : ~TableIsHiddenLine(j))

\* A hidden table with a hidden column has been parsed.
TableHiddenWitness ==
    /\ parseAllOutcome = "returned"
    /\ TheTable.isHidden
    /\ Len(TheTable.columns) = 1
    /\ TheTable.columns[1].isHidden

(***************************************************************************)
(* Claims about the queries of a built engine                              *)
(***************************************************************************)
\* The call a result answers: the operation, then its arguments
ArgsOf(r) ==
    CASE r.op = "none" -> <<>>
      [] r.op = "getVisualLineage" -> <<r.page, r.visual>>
      [] r.op = "getMeasureImpact" -> <<r.name>>
      [] OTHER -> r.args

SameCallAs(r1, r2) == r1.op = r2.op /\ ArgsOf(r1) = ArgsOf(r2)

\* The graph a query must leave alone
TheGraph == <<nodes, edges, measureLookup, dataSources>>

\* What the call that result answers returns on this engine once its three
\* caches are emptied
ImpactAnswer(name, v) ==
    [op |-> "getMeasureImpact", name |-> name, visuals |-> v.visuals,
     dependentMeasures |-> v.dependentMeasures]

FirstTimeResult(r) ==
    CASE r.op = "none" -> r
      [] r.op = "getVisualLineage" ->
            LineageAnswer(r.page, r.visual,
                getVisualLineage(parsedModel, visualData, measureRefs, measureLookup,
                                 fieldParamTables, <<>>, r.page, r.visual).value)
      [] r.op = "getMeasureImpact" ->
            ImpactAnswer(r.name,
                getMeasureImpact(parsedModel, visualData, measureRefs, measureLookup,
                                 r.name))
      [] r.op = "resolveMeasureChain" ->
            Answer(r.op, r.args,
                resolveMeasureChain(measureRefs, measureLookup, <<>>, r.args[1]).value)
      [] r.op = "getFieldLineage" ->
            Answer(r.op, r.args,
                getFieldLineage(parsedModel, measureRefs, measureLookup, <<>>,
                                r.args[1][1], r.args[2], r.args[3]).value)
      [] r.op = "getAllDataSources" -> Answer(r.op, r.args, dataSources)
      [] r.op = "getLineageSummary" ->
            Answer(r.op, r.args,
                LineageSummary(
                    getVisualLineage(parsedModel, visualData, measureRefs,
                                     measureLookup, fieldParamTables, <<>>,
                                     r.args[1], r.args[2]).value))

\* A step of a built engine: the graph stays, and the call just made again
\* is answered as before
QueryStep ==
    phase = "built" =>
        /\ TheGraph' = TheGraph
        /\ SameCallAs(result, result') => result' = result

\* C19: after buildGraph, every call of resolveMeasureChain, getVisualLineage,
\* getMeasureImpact, getFieldLineage, getAllDataSources or getLineageSummary
\* leaves nodes, edges, the measure lookup and the data-source list as they
\* were; a call repeated with the same arguments returns an equal result,
\* and every result is the one the call gives with empty caches, so that
\* calls made in between do not change it.
QueriesLeaveGraphAndRepeat ==
    /\ [][QueryStep]_vars
    /\ [](result = FirstTimeResult(result))

\* Two queries were made, the last one a summary read from the lineage cache
\* of a visual that has measures, tables and sources
QueriesRepeatWitness ==
    /\ phase = "built"
    /\ queries = MaxQueries
    /\ result.op = "getLineageSummary"
    /\ (result.args[1] \o <<"|">> \o result.args[2]) \in DOMAIN visualLineageCache
    /\ Len(result.value) > Len(<<"1", " ", "m", "e", "a", "s", "u", "r", "e">>)
    /\ DOMAIN measureChainCache # {}
    /\ DOMAIN nodes # {}
    /\ edges # <<>>

\* What a top-level resolveMeasureChain(M) computes when nothing is cached
UncachedChain(M) == resolveMeasureChain(measureRefs, measureLookup, <<>>, M).value

\* Every entry of a cache is still there, with its value, after the step
KeepsEntries(before, after) ==
    \A k \in DOMAIN before : k \in DOMAIN after /\ after[k] = before[k]

CachesKeepEntries ==
    /\ KeepsEntries(measureChainCache, measureChainCache')
    /\ KeepsEntries(visualLineageCache, visualLineageCache')
    /\ KeepsEntries(measureImpactCache, measureImpactCache')

\* C20: in every reachable state each entry of the measure-chain cache for a
\* key M is the result an uncached top-level resolveMeasureChain(M) computes,
\* so no result of a recursive call (cut short at a cycle) is ever stored;
\* and no step overwrites or removes an entry of the measure-chain cache,
\* the visual-lineage cache or the measure-impact cache.
CachesHoldTopLevelResults ==
    /\ [](\A M \in DOMAIN measureChainCache : measureChainCache[M] = UncachedChain(M))
    /\ [][CachesKeepEntries]_vars

\* All three caches are filled, and a cached chain comes from measures that
\* reference each other: the recursive call inside it was cut short
CachesFilledWitness ==
    /\ queries = MaxQueries
    /\ DOMAIN visualLineageCache # {}
    /\ DOMAIN measureImpactCache # {}
    /\ \E M \in DOMAIN measureChainCache :
          /\ Len(measureChainCache[M]) = 2
          /\ \E k \in 1..Len(measureChainCache[M]) : measureChainCache[M][k].name = M

(***************************************************************************)
(* Claims about the lines parseTable meets after the header of a measure   *)
(***************************************************************************)
\* The measure M of the parsed table; the state of parseTable after the
\* first i lines of the file
TheMeasure == TheTable.measures[1]
StateAfter(i) == TableLines(ParseTableStart, SubSeq(TheContent, 1, i), 1)

\* A line ends with a fence: a fence on its own line, or the header line of
\* a fenced expression
EndsWithFence(line) ==
    Len(line) >= 3 /\ SubSeq(line, Len(line) - 2, Len(line)) = Fence

\* The number of fences in the lines 2..i of the file
FencesUpTo(i) == Cardinality({j \in 2..i : EndsWithFence(TheContent[j])})

\* Line i is a comment or a description comment
IsCommentLine(line) == StartsWith(Trim(line), <<"/", "/">>)

\* Line i is a `key: value` line of measure M: it comes after the header of
\* M and before the next object, is indented deeper than the header, and no
\* fence comes before it.
PropertyLineOfM(i) ==
    /\ i > 2
    /\ \A j \in 3..i : ~OpensObject(TheContent[j])
    /\ FencesUpTo(i) = 0
    /\ ~IsCommentLine(TheContent[i])
    /\ Includes(TheContent[i], ":")
    /\ Indent(TheContent[i]) > Indent(TheContent[2])

KeyOf(line) == Trim(SubSeq(line, 1, IndexOf(line, ":") - 1))
ValueOf(line) == Trim(SubSeq(line, IndexOf(line, ":") + 1, Len(line)))

\* C21: a `key: value` line indented deeper than the header of the current
\* object becomes a property of the object and is no line of its
\* expression, also when the header carries the expression: a formatString
\* line after the DAX of measure M gives M its formatString.
PropertyLineBecomesProperty ==
    parseAllOutcome = "returned" =>
        \A i \in 1..Len(TheContent) :
            (PropertyLineOfM(i) /\ KeyOf(TheContent[i]) = W_formatString) =>
                /\ TheMeasure.formatString = ValueOf(TheContent[i])
                /\ \A k \in 1..Len(LinesOf(TheMeasure.expression)) :
                      Trim(LinesOf(TheMeasure.expression)[k]) # Trim(TheContent[i])

\* The last line of measure M: the line before the next object, or the last
\* line of the file
EndOfM ==
    IF \E j \in 3..Len(TheContent) : OpensObject(TheContent[j])
    THEN (CHOOSE j \in 3..Len(TheContent) :
             /\ OpensObject(TheContent[j])
             /\ \A k \in 3..(j - 1) : ~OpensObject(TheContent[k])) - 1
    ELSE Len(TheContent)

\* The lines after the header of M that continue its expression: the
\* longest run of lines that are blank or indented deeper than the header
RECURSIVE ContinuationEnd(_)
ContinuationEnd(i) ==
    IF i < EndOfM
       /\ (IsBlank(TheContent[i + 1])
             \/ Indent(TheContent[i + 1]) > Indent(TheContent[2]))
    THEN ContinuationEnd(i + 1)
    ELSE i

\* C22: outside a fenced block, every line after the header of an
\* expression that is blank or indented deeper than the header is appended
\* to the expression buffer as it is, so blank lines and comment lines are
\* in the buffer, and no other part of the parser state changes: no
\* description is pending afterwards.
ContinuationLinesAreBuffered ==
    (parseAllOutcome = "returned" /\ FencesUpTo(EndOfM) = 0) =>
        /\ StateAfter(EndOfM).currentExpression =
              <<AfterEq(Trim(TheContent[2]))>>
                 \o SubSeq(TheContent, 3, ContinuationEnd(2))
        /\ StateAfter(EndOfM).pendingDescription = Null

\* C23: raw capture is on after a line exactly when an odd number of fences
\* has been met, whether the opening fence ends the header line or stands
\* on its own line; a line that declares an object when every fence is
\* closed starts a new object, with an empty expression buffer.
RawCaptureBetweenFences ==
    parseAllOutcome = "returned" =>
        /\ \A i \in 2..Len(TheContent) :
              StateAfter(i).inBacktickBlock <=> (FencesUpTo(i) % 2 = 1)
        /\ \A i \in 3..Len(TheContent) :
              (OpensObject(TheContent[i]) /\ FencesUpTo(i) % 2 = 0) =>
                  /\ StateAfter(i).currentObject # NoObject
                  /\ StateAfter(i).currentObject.type = W_column
                  /\ StateAfter(i).currentExpression = <<>>

(***************************************************************************)
(* Claims about the objects parseTable makes of the headers of a file      *)
(***************************************************************************)
\* The lines of the file that are headers of an object of one type, in the
\* order of the file
HeaderLines(type) ==
    SelectSeq([i \in 1..Len(TheContent) |-> i],
              LAMBDA i : OpensObject(TheContent[i])
                         /\ detectObjectType(Trim(TheContent[i])) = type)

\* The line that declares the calculation group of the table
IsCalculationGroupLine(line) ==
    /\ Indent(line) > 0
    /\ Indent(line) <= 4
    /\ (Trim(line) = W_calculationGroup
          \/ detectObjectType(Trim(line)) = W_calculationGroup)

\* The lines after header i that continue its expression: deeper than the
\* header and no header themselves
RECURSIVE OwnLinesEnd(_, _)
OwnLinesEnd(i, r) ==
    IF r < Len(TheContent)
       /\ Indent(TheContent[r + 1]) > Indent(TheContent[i])
       /\ ~OpensObject(TheContent[r + 1])
    THEN OwnLinesEnd(i, r + 1)
    ELSE r

\* The expression of the object declared by line i: what follows `=` on the
\* header and its own lines, or null when the header has no `=`
OwnExpression(i) ==
    IF Includes(TheContent[i], "=")
    THEN Join(<<AfterEq(Trim(TheContent[i]))>>
                 \o SubSeq(TheContent, i + 1, OwnLinesEnd(i, i)),
              <<Newline>>)
    ELSE Null

\* The entries of a list answer the headers of a type one to one, in order,
\* each with the name and the expression of its own header
AnswersHeaders(list, type, Expr(_)) ==
    /\ Len(list) = Len(HeaderLines(type))
    /\ \A k \in 1..Len(list) :
          /\ list[k].name = extractName(Trim(TheContent[HeaderLines(type)[k]]), type)
          /\ Expr(list[k]) = OwnExpression(HeaderLines(type)[k])

\* The level headers between hierarchy header k and the next one
LevelsOf(k) ==
    {i \in Range(HeaderLines(W_level)) :
        /\ i > HeaderLines(W_hierarchy)[k]
        /\ k < Len(HeaderLines(W_hierarchy)) => i < HeaderLines(W_hierarchy)[k + 1]}

ExpressionOf(entry) == entry.expression
SourceOfPartition(entry) == entry.source
NoExpression(entry) == Null

\* C24: every header of a column, measure, hierarchy or partition gives one
\* entry of the list of its type, in the order of the file and with the
\* expression lines of its own header only, so that no header is finished
\* twice; every level is in the hierarchy declared last before it, and the
\* calculation items of a table that declares a calculation group are the
\* items of that group.
EachHeaderYieldsOneEntry ==
    parseAllOutcome = "returned" =>
        /\ AnswersHeaders(TheTable.columns, W_column, ExpressionOf)
        /\ AnswersHeaders(TheTable.measures, W_measure, ExpressionOf)
        /\ AnswersHeaders(TheTable.partitions, W_partition, SourceOfPartition)
        /\ AnswersHeaders(TheTable.hierarchies, W_hierarchy, NoExpression)
        /\ \A k \in 1..Len(TheTable.hierarchies) :
              k <= Len(HeaderLines(W_hierarchy)) =>
                 Len(TheTable.hierarchies[k].levels) = Cardinality(LevelsOf(k))
        /\ \A g \in 2..Len(TheContent) :
              (/\ IsCalculationGroupLine(TheContent[g])
               /\ \A j \in 2..(g - 1) : ~IsCalculationGroupLine(TheContent[j])) =>
                 /\ TheTable.calculationGroup # NoObject
                 /\ Len(TheTable.calculationGroup.items) =
                       Cardinality({i \in Range(HeaderLines(W_calculationItem)) : i > g})

(***************************************************************************)
(* Claims about the edges and nodes buildGraph makes                       *)
(***************************************************************************)
\* The tables the DAX of measure m names by a column or a table reference,
\* and those named by m or by a measure m reaches by reference steps
DaxTablesOf(m) ==
    {cr.table : cr \in Range(RefsOf(m).columnRefs)} \cup Range(RefsOf(m).tableRefs)

TablesReached(m) == UNION {DaxTablesOf(x) : x \in {m} \cup Reachable(m)}

\* The positions in this.edges of the edges of one type that leave a node
EdgesFrom(id, type) ==
    {k \in 1..Len(edges) : edges[k].from = id /\ edges[k].type = type}

TargetsOf(id, type) == {edges[k].to : k \in EdgesFrom(id, type)}

\* The table is a field-parameter table: it holds NAMEOF items
IsFieldParameterTable(t) == Len(getFieldParameterItems(parsedModel.tables, t)) > 0

\* C25: every measure has one defined_in_table edge, to the table that
\* defines it; only the measures of a field-parameter table have their
\* defined_in_table edges to the tables their DAX references instead.
MeasureEdgeToDefiningTable ==
    phase = "built" =>
        \A i \in 1..Len(parsedModel.tables) :
            \A k \in 1..Len(parsedModel.tables[i].measures) :
                TargetsOf(MeasureId(parsedModel.tables[i].name,
                                    parsedModel.tables[i].measures[k].name),
                          "defined_in_table")
                  = IF IsFieldParameterTable(parsedModel.tables[i].name)
                    THEN {TableId(d) :
                             d \in DaxTablesOf(parsedModel.tables[i].measures[k].name)}
                    ELSE {TableId(parsedModel.tables[i].name)}

\* The tables named by the DAX of m or of a measure of its resolved chain
TablesOfChain(m) ==
    DaxTablesOf(m) \cup UNION {DaxTablesOf(c.name) : c \in Range(UncachedChain(m))}

MeasureEdgesAsReferenced(t, m) ==
    /\ TargetsOf(MeasureId(t, m), "defined_in_table")
          = IF TablesOfChain(m) # {}
            THEN {TableId(d) : d \in TablesOfChain(m)}
            ELSE {TableId(t)}
    /\ Cardinality(EdgesFrom(MeasureId(t, m), "defined_in_table"))
          = Cardinality(TargetsOf(MeasureId(t, m), "defined_in_table"))

\* C25, amended: the defined_in_table edges of a measure go, one each, to
\* the tables that its DAX or the DAX of a measure of its resolved chain
\* references by a column or a table reference; a measure for which there
\* is no such table has one defined_in_table edge, to the table that
\* defines it.
MeasureEdgesToReferencedTables ==
    phase = "built" =>
        \A i \in 1..Len(parsedModel.tables) :
            \A k \in 1..Len(parsedModel.tables[i].measures) :
                MeasureEdgesAsReferenced(parsedModel.tables[i].name,
                                         parsedModel.tables[i].measures[k].name)

\* A graph has been built in which measure A reaches table D only through
\* the measure it references and has its edge to D, while a measure
\* without references has its edge to the defining table F.
MeasureEdgesWitness ==
    /\ phase = "built"
    /\ DaxTablesOf(N_A) = {}
    /\ TablesOfChain(N_A) = {T_D}
    /\ TargetsOf(MeasureId(T_F, N_A), "defined_in_table") = {TableId(T_D)}
    /\ \E m \in LineageMeasures :
          /\ TablesOfChain(m) = {}
          /\ TargetsOf(MeasureId(T_F, m), "defined_in_table") = {TableId(T_F)}

\* The field-parameter items whose NAMEOF target names a measure, each with
\* the table that holds it
MeasureItems ==
    UNION {{<<parsedModel.tables[i].name, it>> :
               it \in Range(getFieldParameterItems(parsedModel.tables,
                                                   parsedModel.tables[i].name))} :
           i \in 1..Len(parsedModel.tables)}

\* C26: a field-parameter item whose NAMEOF target is a measure is linked,
\* by its belongs_to_table edges and its resolvedTables, to the tables the
\* DAX of that measure and of the measures down its chain reference, and
\* not to the table NAMEOF names.
ItemLinksToChainTables ==
    phase = "built" =>
        \A p \in MeasureItems :
            (/\ p[1] \in fieldParamTables
             /\ LookupHas(p[2].column)
             /\ TablesReached(p[2].column) # {}) =>
                /\ TargetsOf(FpItemId(p[1], p[2]), "belongs_to_table")
                      = {TableId(d) : d \in TablesReached(p[2].column)}
                /\ Range(nodes[FpItemId(p[1], p[2])].resolvedTables)
                      = TablesReached(p[2].column)


(***************************************************************************)
(* Claims about the tables getVisualLineage keeps                          *)
(***************************************************************************)
\* The field-parameter items behind the column fields of a visual
ItemsBehind(v) ==
    UNION {Range(getFieldParameterItems(parsedModel.tables, v.fields[k].table)) :
              k \in {j \in 1..Len(v.fields) : v.fields[j].type = "column"}}

\* C27: the lineage of a visual keeps every table referenced by the DAX of
\* a measure the visual uses or of a measure in its chain, every resolved
\* data table of a field-parameter item, and the NAMEOF table of an item
\* that targets a plain column, each with the sources of its partitions;
\* a field-parameter table itself is not among the tables.
OnlyNameofArtifactsRemoved ==
    (result.op = "getVisualLineage" /\ result.value.kind = "lineage") =>
        LET v     == visualData.visuals[FindVisual(visualData, result.page, result.visual)]
            tbls  == result.value.tables
            names == NamesOf(tbls)
        IN /\ TablesBehind(v) \subseteq names
           /\ \A it \in ItemsBehind(v) :
                 IF LookupHas(it.column)
                 THEN DaxTablesOf(it.column) \subseteq names
                 ELSE it.table \in names
           /\ \A k \in 1..Len(tbls) :
                 /\ ~IsFieldParameterTable(tbls[k].name)
                 /\ \A i \in 1..Len(parsedModel.tables) :
                       parsedModel.tables[i].name = tbls[k].name =>
                          tbls[k].sources = PartitionSources(parsedModel.tables[i])


(***************************************************************************)
(* Claims about the visuals getMeasureImpact lists                         *)
(***************************************************************************)
\* The entries of a list of visuals that stand for the visual v
EntriesOf(vs, v) ==
    {k \in 1..Len(vs) : vs[k].name = v.visualName /\ vs[k].page = v.pageName}

\* C28: in the visuals of getMeasureImpact(M) each page and name appears
\* at most once; a visual with M of M's defining table among its measure
\* fields is listed as a direct hit; every indirect entry names, as via, a
\* measure that references M directly and that the visual uses.  A name
\* absent from the lookup has the empty impact.
ImpactVisualsOnceAndMarked ==
    result.op = "getMeasureImpact" =>
        LET vs == result.visuals
            M  == result.name
        IN /\ \A j, k \in 1..Len(vs) :
                 (vs[j].name = vs[k].name /\ vs[j].page = vs[k].page) => j = k
           /\ LookupHas(M) =>
                 \A v \in Range(visualData.visuals) :
                     UsesMeasure(v, M, measureLookup[M]) =>
                        /\ EntriesOf(vs, v) # {}
                        /\ \A k \in EntriesOf(vs, v) : ~vs[k].indirect /\ vs[k].via = <<>>
           /\ \A k \in 1..Len(vs) :
                 vs[k].indirect =>
                    /\ M \in Range(RefsOf(vs[k].via).measureRefs)
                    /\ LookupHas(vs[k].via)
                    /\ \E v \in Range(visualData.visuals) :
                          /\ EntriesOf(vs, v) = {k}
                          /\ UsesMeasure(v, vs[k].via, measureLookup[vs[k].via])
           /\ ~LookupHas(M) => (vs = <<>> /\ result.dependentMeasures = <<>>)


(***************************************************************************)
(* Claims about what extractDataSources depends on                         *)
(***************************************************************************)
\* The values the static _declaredParams can have: undefined, or the set
\* an earlier extractAllFromModel made of the expressions of some model
DeclaredValues ==
    {NoDeclaredParams} \cup {DeclaredParams(es) : es \in MExpressionLists}

\* C29: extractDataSources is a function of its text alone: the list it
\* returns, with the parameterized flag of each source, is the list it
\* returns for that text whichever calls of extractAllFromModel came before.
ExtractDataSourcesIsPure ==
    mCall = "extractDataSources" =>
        \A d \in DeclaredValues : mSources = ExtractDataSourcesIn(mText, d)


(***************************************************************************)
(* Claims about measures of one name in two tables                         *)
(***************************************************************************)
\* Table i of the parsed model defines a measure named n
Defines(i, n) ==
    \E k \in 1..Len(parsedModel.tables[i].measures) :
        parsedModel.tables[i].measures[k].name = n

MeasureNamesOf(i) ==
    {parsedModel.tables[i].measures[k].name :
        k \in 1..Len(parsedModel.tables[i].measures)}

\* Table j is the last of two or more tables that define n
LastOfSeveral(j, n) ==
    /\ Defines(j, n)
    /\ \E i \in 1..(j - 1) : Defines(i, n)
    /\ \A l \in (j + 1)..Len(parsedModel.tables) : ~Defines(l, n)

\* C30: of the measures two tables define under one name, the reference
\* map of extractAllReferences and the lookup from name to table keep the
\* one of the table that comes last in the tables of the model, also when
\* that measure has no expression.
SameNameKeepsLastTable ==
    parseAllOutcome = "returned" =>
        \A j \in 1..Len(parsedModel.tables) :
            \A n \in MeasureNamesOf(j) :
                LastOfSeveral(j, n) =>
                    /\ buildMeasureLookup(parsedModel.tables)[n] = parsedModel.tables[j].name
                    /\ n \in DOMAIN measureRefs =>
                          measureRefs[n].table = parsedModel.tables[j].name

====
